---- MODULE Spec2Model ----
(***************************************************************************)
(* Knowledge Context Protocol: the manifest parser (kcp/parser.py), the    *)
(* manifest validator (kcp/validator.py) and the MCP bridge (kcp_mcp:       *)
(* mapper.py, content.py, server.py), as a state machine over one input    *)
(* document.                                                               *)
(*                                                                         *)
(* Python values are tagged records, so that None, a str, an int, a list   *)
(* and a dict stay distinct and a TypeError of the code is a raised        *)
(* outcome of the model.  A str is a TLA+ string; the code's character     *)
(* level operations (startswith, the split of a path into segments, the    *)
(* id pattern, len) are computed with Len and SubSeq on it.                *)
(***************************************************************************)
EXTENDS Integers, Sequences, FiniteSets, TLC

VARIABLES
    input,        \* what the caller supplies: document, base directory, files on disk
    raw,          \* the argument of a direct call of _validate_unit_path
    pc,           \* position of the caller: init, start, parsed, failed, validated, done,
                  \* parsed twice, validated twice, graph, walking, returned, serving
    path_result,  \* outcome of the direct call of _validate_unit_path
    manifest,     \* outcome of parse_dict (or of the dataclass constructors)
    result,       \* outcome of validate
    cycles,       \* outcome of the direct call of _detect_cycles
    again,        \* outcomes of parse_dict and validate called a second time
    walk,         \* the locals of _detect_cycles while it runs: adj, state, path_set,
                  \* cycle_edges, the frames of dfs, the ids the loop has yet to meet
    bridge        \* the MCP bridge: the outcome of create_server (slug, resource_list,
                  \* unit_index), of list_resources and of the last read_resource

vars == <<input, raw, pc, path_result, manifest, result, cycles, again, walk, bridge>>

(***************************************************************************)
(* Bounds of the model.                                                    *)
(***************************************************************************)
MaxUnits == 2
MaxPathLen == 7

(***************************************************************************)
(* Python values.                                                          *)
(***************************************************************************)
None == [ty |-> "none"]
Str(s) == [ty |-> "str", s |-> s]
PyInt(n) == [ty |-> "int", n |-> n]
List(l) == [ty |-> "list", l |-> l]
Dict(d) == [ty |-> "dict", d |-> d]
Date(iso) == [ty |-> "date", iso |-> iso]

IsStr(v) == v.ty = "str"
IsList(v) == v.ty = "list"

\* bool(v): the truth value Python gives `not v` and `if v`.
Truthy(v) ==
    CASE v.ty = "none" -> FALSE
      [] v.ty = "str" -> v.s # ""
      [] v.ty = "int" -> v.n # 0
      [] v.ty = "list" -> v.l # <<>>
      [] v.ty = "dict" -> DOMAIN v.d # {}
      [] OTHER -> TRUE

\* hash(v) succeeds: what may be a member of a set or a key of a dict.
Hashable(v) == v.ty \notin {"list", "dict"}

(***************************************************************************)
(* Outcomes of a call: it has not happened, it returned, or it raised.     *)
(***************************************************************************)
Pending == [status |-> "pending", value |-> None, exc |-> "", msg |-> ""]
Return(v) == [status |-> "returned", value |-> v, exc |-> "", msg |-> ""]
Raise(e, m) == [status |-> "raised", value |-> None, exc |-> e, msg |-> m]

Returned(o) == o.status = "returned"
Raised(o) == o.status = "raised"

(***************************************************************************)
(* dict access: d[k] raises KeyError, d.get(k, default) does not.          *)
(***************************************************************************)
Has(d, k) == k \in DOMAIN d
Get(d, k, default) == IF k \in DOMAIN d THEN d[k] ELSE default

With(d, k, v) == [x \in DOMAIN d \cup {k} |-> IF x = k THEN v ELSE d[x]]
Without(d, ks) == [x \in DOMAIN d \ ks |-> d[x]]

(***************************************************************************)
(* Strings.                                                                *)
(***************************************************************************)
StartsWith(s, p) == Len(s) >= Len(p) /\ SubSeq(s, 1, Len(p)) = p

\* "".join(cs)
RECURSIVE Join(_)
Join(cs) == IF cs = <<>> THEN "" ELSE Head(cs) \o Join(Tail(cs))

\* s.split(sep) for a one-character separator.
RECURSIVE SplitFrom(_, _, _)
SplitFrom(s, sep, acc) ==
    IF s = "" THEN <<acc>>
    ELSE IF Head(s) = sep THEN <<acc>> \o SplitFrom(Tail(s), sep, "")
    ELSE SplitFrom(Tail(s), sep, acc \o Head(s))
Split(s, sep) == SplitFrom(s, sep, "")

(***************************************************************************)
(* pathlib.PurePosixPath(raw).parts: the root ("/", or "//" for exactly    *)
(* two leading slashes) followed by the segments between slashes, the      *)
(* empty and the "." segments dropped.  No other normalisation: ".."       *)
(* stays.                                                                  *)
(***************************************************************************)
PosixRoot(s) ==
    IF StartsWith(s, "//") /\ ~StartsWith(s, "///") THEN <<"//">>
    ELSE IF StartsWith(s, "/") THEN <<"/">>
    ELSE <<>>

KeepSegment(seg) == seg # "" /\ seg # "."

PurePosixPathParts(s) == PosixRoot(s) \o SelectSeq(Split(s, "/"), KeepSegment)

(***************************************************************************)
(* parser.py: _validate_unit_path                                          *)
(***************************************************************************)
\* The absolute test with the forward slash alone.
IsAbsoluteSlashOnly(s) == StartsWith(s, "/")

IsAbsolute(s) == StartsWith(s, "/") \/ StartsWith(s, "\\")

_validate_unit_path(r) ==
    IF r = None THEN Return(r)
    ELSE IF ~IsStr(r) THEN Raise("AttributeError", "startswith")
    ELSE IF IsAbsolute(r.s) THEN Raise("ValueError", "Unit path must be relative")
    ELSE LET parts == PurePosixPathParts(r.s) IN
         IF parts # <<>> /\ parts[1] = ".."
         THEN Raise("ValueError", "Unit path escapes manifest root")
         ELSE Return(r)

(***************************************************************************)
(* parser.py: _to_date.  date.fromisoformat of the YYYY-MM-DD form, the    *)
(* one form every Python version accepts; str(value) of a value that is    *)
(* not a str is never of that form.                                        *)
(***************************************************************************)
IsDigit(c) == \E i \in 1..10 : SubSeq("0123456789", i, i) = c
DigitValue(c) == (CHOOSE i \in 1..10 : SubSeq("0123456789", i, i) = c) - 1

RECURSIVE Number(_)
Number(s) == IF s = "" THEN 0 ELSE 10 * Number(SubSeq(s, 1, Len(s) - 1)) + DigitValue(SubSeq(s, Len(s), Len(s)))

AllDigits(s) == \A i \in 1..Len(s) : IsDigit(SubSeq(s, i, i))

IsLeap(y) == (y % 4 = 0 /\ y % 100 # 0) \/ y % 400 = 0

DaysInMonth(y, m) ==
    IF m = 2 THEN (IF IsLeap(y) THEN 29 ELSE 28)
    ELSE IF m \in {4, 6, 9, 11} THEN 30 ELSE 31

IsIsoDate(s) ==
    /\ Len(s) = 10
    /\ SubSeq(s, 5, 5) = "-" /\ SubSeq(s, 8, 8) = "-"
    /\ AllDigits(SubSeq(s, 1, 4)) /\ AllDigits(SubSeq(s, 6, 7)) /\ AllDigits(SubSeq(s, 9, 10))
    /\ LET y == Number(SubSeq(s, 1, 4))
           m == Number(SubSeq(s, 6, 7))
           d == Number(SubSeq(s, 9, 10))
       IN y >= 1 /\ m \in 1..12 /\ d >= 1 /\ d <= DaysInMonth(y, m)

_to_date(value) ==
    IF value = None THEN Return(None)
    ELSE IF value.ty = "date" THEN Return(value)
    ELSE IF IsStr(value) /\ IsIsoDate(value.s) THEN Return(Date(value.s))
    ELSE Raise("ValueError", "Invalid isoformat string")

(***************************************************************************)
(* model.py: the dataclasses.  The parser passes nine fields of a unit     *)
(* and six of a manifest; the others take their dataclass default.         *)
(***************************************************************************)
KnowledgeUnit(id, path, intent, scope, audience, validated, depends_on, supersedes, triggers) ==
    [id |-> id, path |-> path, intent |-> intent, scope |-> scope,
     audience |-> audience, kind |-> None, format |-> None,
     content_type |-> None, language |-> None, license |-> None,
     validated |-> validated, update_frequency |-> None, indexing |-> None,
     depends_on |-> depends_on, supersedes |-> supersedes, triggers |-> triggers]

Relationship(from_id, to_id, type) ==
    [from_id |-> from_id, to_id |-> to_id, type |-> type]

KnowledgeManifest(project, version, kcp_version, updated, units, relationships) ==
    [project |-> project, version |-> version, units |-> units,
     kcp_version |-> kcp_version, updated |-> updated, language |-> None,
     license |-> None, indexing |-> None, relationships |-> relationships]

(***************************************************************************)
(* parser.py: parse_dict.  The first exception ends the call; the unit     *)
(* comprehension runs before the relationship comprehension, and both      *)
(* before the arguments of KnowledgeManifest are evaluated.                *)
(***************************************************************************)
\* The first raised outcome of a sequence of outcomes, or the list of values.
RECURSIVE Collect(_)
Collect(outs) ==
    IF outs = <<>> THEN Return(<<>>)
    ELSE IF Raised(Head(outs)) THEN Head(outs)
    ELSE LET rest == Collect(Tail(outs)) IN
         IF Raised(rest) THEN rest ELSE Return(<<Head(outs).value>> \o rest.value)

\* `for x in v`: the items a comprehension iterates over.
Chars(s) == [i \in 1..Len(s) |-> Str(SubSeq(s, i, i))]

\* The keys of a dict, in the order a loop meets them.
Keys(d) ==
    CHOOSE ks \in [1..Cardinality(DOMAIN d) -> {Str(k) : k \in DOMAIN d}] :
        {ks[i] : i \in 1..Cardinality(DOMAIN d)} = {Str(k) : k \in DOMAIN d}

Iterate(v) ==
    CASE v.ty = "list" -> Return(v.l)
      [] v.ty = "str" -> Return(Chars(v.s))
      [] v.ty = "dict" -> Return(Keys(v.d))
      [] OTHER -> Raise("TypeError", "object is not iterable")

ScopeDefault == Str("global")

\* Were data.get("version") written without its default.
VersionDefaultNone == None

\* version=data.get("version", "")
VersionDefault == Str("")

\* d.get(k, None) where d[k] was meant: a missing key is no failure.
SubscriptLenient(d, k) == Return(Get(d, k, None))

\* d[k]: the value, or KeyError when the key is missing.
Subscript(d, k) == IF Has(d, k) THEN Return(d[k]) ELSE Raise("KeyError", k)

ParseUnit(u) ==
    LET id == Subscript(u, "id") IN
    IF Raised(id) THEN id
    ELSE LET raw_path == Subscript(u, "path") IN
    IF Raised(raw_path) THEN raw_path
    ELSE LET p == _validate_unit_path(raw_path.value) IN
    IF Raised(p) THEN p
    ELSE LET intent == Subscript(u, "intent") IN
    IF Raised(intent) THEN intent
    ELSE LET d == _to_date(Get(u, "validated", None)) IN
    IF Raised(d) THEN d
    ELSE Return(KnowledgeUnit(id.value, p.value, intent.value,
                              Get(u, "scope", ScopeDefault),
                              Get(u, "audience", List(<<>>)),
                              d.value,
                              Get(u, "depends_on", List(<<>>)),
                              Get(u, "supersedes", None),
                              Get(u, "triggers", List(<<>>))))

ParseRelationship(r) ==
    LET from_id == Subscript(r, "from") IN
    IF Raised(from_id) THEN from_id
    ELSE LET to_id == Subscript(r, "to") IN
    IF Raised(to_id) THEN to_id
    ELSE LET type == Subscript(r, "type") IN
    IF Raised(type) THEN type
    ELSE Return(Relationship(from_id.value, to_id.value, type.value))

\* The dicts a comprehension `for u in v` hands to u[...] and u.get(...).
DictItems(v) ==
    LET items == Iterate(v) IN
    IF Raised(items) THEN items
    ELSE IF \E i \in 1..Len(items.value) : items.value[i].ty # "dict"
         THEN Raise("TypeError", "indices must be integers")
    ELSE Return([i \in 1..Len(items.value) |-> items.value[i].d])

\* The items that are the first to bear their 'id'.
RECURSIVE FirstOfEachId(_)
FirstOfEachId(items) ==
    IF items = <<>> THEN <<>>
    ELSE LET front == SubSeq(items, 1, Len(items) - 1)
             last == items[Len(items)]
         IN  IF \E j \in 1..Len(front) : Get(front[j], "id", None) = Get(last, "id", None)
             THEN FirstOfEachId(front)
             ELSE Append(FirstOfEachId(front), last)

\* Were the units collected into a dict keyed by id before the list is built.
ParseUnitsDistinct(v) ==
    LET items == DictItems(v) IN
    IF Raised(items) THEN items
    ELSE LET kept == FirstOfEachId(items.value) IN
         Collect([i \in 1..Len(kept) |-> ParseUnit(kept[i])])

\* [KnowledgeUnit(...) for u in data.get("units", [])]
ParseUnits(v) ==
    LET items == DictItems(v) IN
    IF Raised(items) THEN items
    ELSE Collect([i \in 1..Len(items.value) |-> ParseUnit(items.value[i])])

ParseRelationships(v) ==
    LET items == DictItems(v) IN
    IF Raised(items) THEN items
    ELSE Collect([i \in 1..Len(items.value) |-> ParseRelationship(items.value[i])])

UnitsOf(data) == Get(data, "units", List(<<>>))

parse_dict(data) ==
    LET units == ParseUnits(UnitsOf(data)) IN
    IF Raised(units) THEN units
    ELSE LET relationships == ParseRelationships(Get(data, "relationships", List(<<>>))) IN
    IF Raised(relationships) THEN relationships
    ELSE LET project == Subscript(data, "project") IN
    IF Raised(project) THEN project
    ELSE LET updated == _to_date(Get(data, "updated", None)) IN
    IF Raised(updated) THEN updated
    ELSE Return(KnowledgeManifest(project.value,
                                  Get(data, "version", VersionDefault),
                                  Get(data, "kcp_version", None),
                                  updated.value,
                                  units.value,
                                  relationships.value))
(***************************************************************************)
(* validator.py: the constant tables.                                      *)
(***************************************************************************)
VALID_SCOPES == {"global", "project", "module"}
VALID_AUDIENCES == {"human", "agent", "developer", "operator", "architect", "devops"}
VALID_RELATIONSHIP_TYPES == {"enables", "context", "supersedes", "contradicts"}
VALID_KINDS == {"knowledge", "schema", "service", "policy", "executable"}
VALID_FORMATS ==
    {"markdown", "pdf", "openapi", "json-schema", "jupyter",
     "html", "asciidoc", "rst", "vtt", "yaml", "json", "csv", "text"}
VALID_UPDATE_FREQUENCIES == {"hourly", "daily", "weekly", "monthly", "rarely", "never"}
VALID_INDEXING_SHORTHANDS == {"open", "read-only", "no-train", "none"}
KNOWN_KCP_VERSIONS == {"0.1", "0.2", "0.3"}
_MAX_TRIGGER_LENGTH == 60
_MAX_TRIGGERS_PER_UNIT == 20

\* `v in S` for a set S of str constants; the caller checks Hashable(v) first.
InSet(v, S) == IsStr(v) /\ v.s \in S

\* _ID_PATTERN = ^[a-z0-9.\-]+$ under re.match ($ also matches before a final newline).
IdChars == "abcdefghijklmnopqrstuvwxyz0123456789.-"
IsIdChar(c) == \E i \in 1..Len(IdChars) : SubSeq(IdChars, i, i) = c
_ID_PATTERN(s) ==
    LET body == IF s # "" /\ SubSeq(s, Len(s), Len(s)) = "\n"
                THEN SubSeq(s, 1, Len(s) - 1) ELSE s
    IN body # "" /\ \A i \in 1..Len(body) : IsIdChar(SubSeq(body, i, i))

\* len(v)
HasLen(v) == v.ty \in {"str", "list", "dict"}
PyLen(v) ==
    CASE v.ty = "str" -> Len(v.s)
      [] v.ty = "list" -> Len(v.l)
      [] OTHER -> Cardinality(DOMAIN v.d)

Range(seq) == {seq[i] : i \in 1..Len(seq)}

(***************************************************************************)
(* validator.py: _detect_cycles.  `order` is the order in which the loop   *)
(* `for uid in unit_ids` meets the ids of the set.                         *)
(***************************************************************************)
UnitIds(units) == {units[i].id : i \in 1..Len(units)}

\* adj[unit.id] = ... in manifest order: the assignment that stays is the last one.
KeptIndex(units, id) ==
    CHOOSE i \in 1..Len(units) : units[i].id = id /\ \A j \in (i + 1)..Len(units) : units[j].id # id

KnownDep(dep, unit_ids) == dep \in unit_ids

KnownDeps(unit, unit_ids) ==
    LET deps == Iterate(unit.depends_on).value
        Known(dep) == KnownDep(dep, unit_ids)
    IN SelectSeq(deps, Known)

Adjacency(units) ==
    [id \in UnitIds(units) |-> KnownDeps(units[KeptIndex(units, id)], UnitIds(units))]

\* server.py: unit_index = {u.id: u for u in manifest.units}; a repeated key keeps
\* the value assigned last.
unit_index(units) == [id \in UnitIds(units) |-> units[KeptIndex(units, id)]]

DetectCyclesRaises(units) ==
    \/ \E i \in 1..Len(units) : ~Hashable(units[i].id)
    \/ \E i \in 1..Len(units) :
          \/ Raised(Iterate(units[i].depends_on))
          \/ \E dep \in Range(Iterate(units[i].depends_on).value) : ~Hashable(dep)

RECURSIVE dfs(_, _, _), dfsDeps(_, _, _, _)
dfs(adj, node, s) ==
    LET entered == [s EXCEPT !.state[node] = 1, !.path_set = @ \cup {node}]
        walked == dfsDeps(adj, node, adj[node], entered)
    IN [walked EXCEPT !.state[node] = 2, !.path_set = @ \ {node}]

dfsDeps(adj, node, deps, s) ==
    IF deps = <<>> THEN s
    ELSE LET dep == Head(deps)
             next == IF s.state[dep] = 1
                     THEN [s EXCEPT !.cycle_edges = @ \cup {<<node, dep>>}]
                     ELSE IF s.state[dep] = 0 THEN dfs(adj, dep, s)
                     ELSE s
         IN dfsDeps(adj, node, Tail(deps), next)

RECURSIVE dfsFrom(_, _, _)
dfsFrom(adj, order, s) ==
    IF order = <<>> THEN s
    ELSE LET uid == Head(order)
             next == IF s.state[uid] = 0
                     THEN dfs(adj, uid, [s EXCEPT !.path_set = {}])
                     ELSE s
         IN dfsFrom(adj, Tail(order), next)

Orders(S) == {o \in [1..Cardinality(S) -> S] : Range(o) = S}

_detect_cycles(units, order) ==
    IF DetectCyclesRaises(units) THEN Raise("TypeError", "_detect_cycles")
    ELSE LET start == [state |-> [uid \in UnitIds(units) |-> 0],
                       path_set |-> {},
                       cycle_edges |-> {}]
         IN Return(dfsFrom(Adjacency(units), order, start).cycle_edges)
(***************************************************************************)
(* The files below the base directory, as the existence probe sees them.   *)
(* `files` is a set of segment sequences, each an existing file named      *)
(* from the base directory (a leading ".." names its parent, a leading "/" *)
(* the root); every proper prefix of a file is a directory, and so are     *)
(* the root, the base directory and its ancestors.                         *)
(***************************************************************************)
IsPrefix(p, q) == Len(p) <= Len(q) /\ SubSeq(q, 1, Len(p)) = p

IsDir(files, cur) ==
    \/ cur = <<"/">>
    \/ \A i \in 1..Len(cur) : cur[i] = ".."
    \/ \E f \in files : IsPrefix(cur, f) /\ Len(cur) < Len(f)

Exists(files, cur) == IsDir(files, cur) \/ cur \in files

\* One part of a path, as the kernel walks it from `cur`.
Step(cur, part) ==
    IF part \in {"/", "//"} THEN <<"/">>
    ELSE IF part = ".."
         THEN (IF cur = <<"/">> THEN cur
               ELSE IF cur = <<>> \/ cur[Len(cur)] = ".." THEN Append(cur, "..")
               ELSE SubSeq(cur, 1, Len(cur) - 1))
    ELSE Append(cur, part)

RECURSIVE Walk(_, _, _)
Walk(files, cur, parts) ==
    IF parts = <<>> THEN Exists(files, cur)
    ELSE IF ~IsDir(files, cur) THEN FALSE
    ELSE Walk(files, Step(cur, Head(parts)), Tail(parts))

\* (Path(manifest_dir) / path).exists(): pathlib drops the empty and the "."
\* segments and keeps "..", which the kernel resolves.
PathExists(files, path) == Walk(files, <<>>, PurePosixPathParts(path))

(***************************************************************************)
(* validator.py: validate.  A message is kept as the parts its f-string    *)
(* is built from: what it is about, the id(s) in its prefix, the rule and  *)
(* the value it quotes.                                                    *)
(***************************************************************************)
ManifestMsg(rule, arg) == [about |-> "manifest", rule |-> rule, arg |-> arg]
UnitMsg(unit, rule, arg) == [about |-> "unit", id |-> unit.id, rule |-> rule, arg |-> arg]
RelMsg(rel, rule, arg) ==
    [about |-> "relationship", from_id |-> rel.from_id, to_id |-> rel.to_id,
     rule |-> rule, arg |-> arg]

When(cond, msg) == IF cond THEN <<msg>> ELSE <<>>

RECURSIVE Concat(_)
Concat(seqs) == IF seqs = <<>> THEN <<>> ELSE Head(seqs) \o Concat(Tail(seqs))

\* sorted(S) raises for values that do not compare with each other.
Sortable(S) ==
    Cardinality(S) <= 1 \/ (\A v \in S : v.ty = "str") \/ (\A v \in S : v.ty = "int")

InvalidAudience(unit) ==
    {a \in Range(Iterate(unit.audience).value) : ~InSet(a, VALID_AUDIENCES)}

\* The checks of one unit whose id is not empty: does any of them raise?
UnitChecksRaise(unit, manifest_dir) ==
    \/ ~IsStr(unit.id)
    \/ Truthy(unit.path) /\ manifest_dir # None /\ ~IsStr(unit.path)
    \/ Truthy(unit.scope) /\ ~Hashable(unit.scope)
    \/ Raised(Iterate(unit.audience))
    \/ \E a \in Range(Iterate(unit.audience).value) : ~Hashable(a)
    \/ ~Sortable(InvalidAudience(unit))
    \/ unit.kind # None /\ ~Hashable(unit.kind)
    \/ unit.format # None /\ ~Hashable(unit.format)
    \/ unit.update_frequency # None /\ ~Hashable(unit.update_frequency)
    \/ ~HasLen(unit.triggers)
    \/ Raised(Iterate(unit.triggers))
    \/ \E t \in Range(Iterate(unit.triggers).value) : ~HasLen(t)

\* The scope checked for presence only.
ScopeErrorsLax(unit) == When(~Truthy(unit.scope), UnitMsg(unit, "'scope' is required", None))

ScopeErrors(unit) ==
    IF ~Truthy(unit.scope) THEN <<UnitMsg(unit, "'scope' is required", None)>>
    ELSE When(~InSet(unit.scope, VALID_SCOPES),
              UnitMsg(unit, "'scope' must be one of", unit.scope))

\* The error checks were they one if/elif chain: the first finding only.
UnitErrorsFirstOnly(unit) ==
    IF ~Truthy(unit.id) THEN <<[about |-> "unit", rule |-> "'id' is required"]>>
    ELSE IF ~Truthy(unit.path) THEN <<UnitMsg(unit, "'path' is required", None)>>
    ELSE IF ~Truthy(unit.intent) THEN <<UnitMsg(unit, "'intent' is required", None)>>
    ELSE ScopeErrors(unit)

UnitErrors(unit) ==
    IF ~Truthy(unit.id) THEN <<[about |-> "unit", rule |-> "'id' is required"]>>
    ELSE When(~Truthy(unit.path), UnitMsg(unit, "'path' is required", None))
         \o When(~Truthy(unit.intent), UnitMsg(unit, "'intent' is required", None))
         \o ScopeErrors(unit)

IsDuplicate(unit, seen_ids) == unit.id \in seen_ids

\* The depends_on check were it to report a unit that names itself.
DependsOnWarningsNoSelf(unit, unit_ids) ==
    LET deps == Iterate(unit.depends_on).value IN
    Concat([i \in 1..Len(deps) |->
               When(deps[i] \notin unit_ids \/ deps[i] = unit.id,
                    UnitMsg(unit, "'depends_on' references unknown unit", deps[i]))])

DependsOnWarnings(unit, unit_ids) ==
    LET deps == Iterate(unit.depends_on).value IN
    Concat([i \in 1..Len(deps) |->
               When(deps[i] \notin unit_ids,
                    UnitMsg(unit, "'depends_on' references unknown unit", deps[i]))])

\* The trigger checks with the bounds themselves already too much.
TriggerWarningsAtBound(unit) ==
    LET triggers == Iterate(unit.triggers).value IN
    When(PyLen(unit.triggers) >= _MAX_TRIGGERS_PER_UNIT,
         UnitMsg(unit, "more than 20 triggers", PyInt(PyLen(unit.triggers))))
    \o Concat([i \in 1..Len(triggers) |->
                  When(PyLen(triggers[i]) >= _MAX_TRIGGER_LENGTH,
                       UnitMsg(unit, "trigger exceeds 60 characters", triggers[i]))])

TriggerWarnings(unit) ==
    LET triggers == Iterate(unit.triggers).value IN
    When(PyLen(unit.triggers) > _MAX_TRIGGERS_PER_UNIT,
         UnitMsg(unit, "more than 20 triggers", PyInt(PyLen(unit.triggers))))
    \o Concat([i \in 1..Len(triggers) |->
                  When(PyLen(triggers[i]) > _MAX_TRIGGER_LENGTH,
                       UnitMsg(unit, "trigger exceeds 60 characters", triggers[i]))])

\* The probe were it made of Path(".") when no base directory is given.
ProbesPathAlways(unit, manifest_dir) == Truthy(unit.path)

\* `if not unit.path: ... elif manifest_dir is not None:`
ProbesPath(unit, manifest_dir) == Truthy(unit.path) /\ manifest_dir # None

\* The enum checks without the isinstance(unit.indexing, str) test.
EnumWarningsOfAnyShape(unit) ==
    When(unit.kind # None /\ ~InSet(unit.kind, VALID_KINDS),
         UnitMsg(unit, "unknown 'kind' value", unit.kind))
    \o When(unit.format # None /\ ~InSet(unit.format, VALID_FORMATS),
            UnitMsg(unit, "unknown 'format' value", unit.format))
    \o When(unit.update_frequency # None
              /\ ~InSet(unit.update_frequency, VALID_UPDATE_FREQUENCIES),
            UnitMsg(unit, "unknown 'update_frequency' value", unit.update_frequency))
    \o When(unit.indexing # None /\ ~InSet(unit.indexing, VALID_INDEXING_SHORTHANDS),
            UnitMsg(unit, "unknown 'indexing' shorthand", unit.indexing))

\* kind, format, update_frequency and indexing against their tables.
EnumWarnings(unit) ==
    When(unit.kind # None /\ ~InSet(unit.kind, VALID_KINDS),
         UnitMsg(unit, "unknown 'kind' value", unit.kind))
    \o When(unit.format # None /\ ~InSet(unit.format, VALID_FORMATS),
            UnitMsg(unit, "unknown 'format' value", unit.format))
    \o When(unit.update_frequency # None
              /\ ~InSet(unit.update_frequency, VALID_UPDATE_FREQUENCIES),
            UnitMsg(unit, "unknown 'update_frequency' value", unit.update_frequency))
    \o When(unit.indexing # None /\ IsStr(unit.indexing)
              /\ ~InSet(unit.indexing, VALID_INDEXING_SHORTHANDS),
            UnitMsg(unit, "unknown 'indexing' shorthand", unit.indexing))

UnitWarnings(unit, seen_ids, unit_ids, manifest_dir, files) ==
    IF ~Truthy(unit.id) THEN <<>>
    ELSE When(IsDuplicate(unit, seen_ids), UnitMsg(unit, "duplicate 'id'", None))
         \o When(~_ID_PATTERN(unit.id.s), UnitMsg(unit, "'id' should contain only", None))
         \o When(ProbesPath(unit, manifest_dir) /\ ~PathExists(files, unit.path.s),
                 UnitMsg(unit, "path does not exist", unit.path))
         \o When(InvalidAudience(unit) # {},
                 UnitMsg(unit, "unknown audience value(s)", InvalidAudience(unit)))
         \o EnumWarnings(unit)
         \o DependsOnWarnings(unit, unit_ids)
         \o TriggerWarnings(unit)

\* The relationship checks with the 'to' endpoint left unchecked.
RelWarningsFromOnly(rel, unit_ids) ==
    When(rel.from_id \notin unit_ids,
         RelMsg(rel, "'from' references unknown unit", rel.from_id))
    \o When(~InSet(rel.type, VALID_RELATIONSHIP_TYPES),
            RelMsg(rel, "'type' must be one of", rel.type))

RelWarnings(rel, unit_ids) ==
    When(rel.from_id \notin unit_ids,
         RelMsg(rel, "'from' references unknown unit", rel.from_id))
    \o When(rel.to_id \notin unit_ids,
            RelMsg(rel, "'to' references unknown unit", rel.to_id))
    \o When(~InSet(rel.type, VALID_RELATIONSHIP_TYPES),
            RelMsg(rel, "'type' must be one of", rel.type))

\* seen_ids with the unit under check already added.
SeenIdsEager(units, i) == {units[j].id : j \in {k \in 1..i : Truthy(units[k].id)}}

\* seen_ids when the loop reaches unit i: the non-empty ids before it.
SeenIds(units, i) == {units[j].id : j \in {k \in 1..(i - 1) : Truthy(units[k].id)}}

\* The two kcp_version checks as two `if`s rather than `if` and `elif`.
KcpVersionWarningsBoth(m) ==
    When(~Truthy(m.kcp_version), ManifestMsg("'kcp_version' not declared; assuming 0.3", None))
    \o When(~InSet(m.kcp_version, KNOWN_KCP_VERSIONS),
            ManifestMsg("unknown kcp_version", m.kcp_version))

KcpVersionWarnings(m) ==
    IF ~Truthy(m.kcp_version)
    THEN <<ManifestMsg("'kcp_version' not declared; assuming 0.3", None)>>
    ELSE When(~InSet(m.kcp_version, KNOWN_KCP_VERSIONS),
              ManifestMsg("unknown kcp_version", m.kcp_version))

RootErrors(m) ==
    When(~Truthy(m.project), ManifestMsg("'project' is required", None))
    \o When(m.units = <<>>, ManifestMsg("'units' must not be empty", None))

ValidateRaises(m, manifest_dir) ==
    \/ DetectCyclesRaises(m.units)
    \/ Truthy(m.kcp_version) /\ ~Hashable(m.kcp_version)
    \/ \E i \in 1..Len(m.units) :
          Truthy(m.units[i].id) /\ UnitChecksRaise(m.units[i], manifest_dir)
    \/ \E j \in 1..Len(m.relationships) :
          \/ ~Hashable(m.relationships[j].from_id)
          \/ ~Hashable(m.relationships[j].to_id)
          \/ ~Hashable(m.relationships[j].type)

ValidationResult(errors, warnings) == [errors |-> errors, warnings |-> warnings]

is_valid(res) == Len(res.errors) = 0

\* validate were its relationship loop placed before its unit loop.
validateRelationshipsFirst(m, manifest_dir, files) ==
    IF ValidateRaises(m, manifest_dir) THEN Raise("TypeError", "validate")
    ELSE LET unit_ids == UnitIds(m.units) IN
         Return(ValidationResult(
             RootErrors(m)
               \o Concat([i \in 1..Len(m.units) |-> UnitErrors(m.units[i])]),
             KcpVersionWarnings(m)
               \o Concat([j \in 1..Len(m.relationships) |->
                     RelWarnings(m.relationships[j], unit_ids)])
               \o Concat([i \in 1..Len(m.units) |->
                     UnitWarnings(m.units[i], SeenIds(m.units, i), unit_ids, manifest_dir, files)])))

\* validate(manifest, manifest_dir): the findings in the order they are appended.
validate(m, manifest_dir, files) ==
    IF ValidateRaises(m, manifest_dir) THEN Raise("TypeError", "validate")
    ELSE LET unit_ids == UnitIds(m.units) IN
         Return(ValidationResult(
             RootErrors(m)
               \o Concat([i \in 1..Len(m.units) |-> UnitErrors(m.units[i])]),
             KcpVersionWarnings(m)
               \o Concat([i \in 1..Len(m.units) |->
                     UnitWarnings(m.units[i], SeenIds(m.units, i), unit_ids, manifest_dir, files)])
               \o Concat([j \in 1..Len(m.relationships) |->
                     RelWarnings(m.relationships[j], unit_ids)])))
(***************************************************************************)
(* What the calls leave in the objects they were given.  parse_dict reads  *)
(* its document with data[...], data.get(...) and iteration; validate and  *)
(* _detect_cycles assign to their locals only (errors, warnings, seen_ids, *)
(* adj, state, path_set, cycle_edges), and set(), sorted() and the slice   *)
(* trigger[:30] build new objects.                                         *)
(***************************************************************************)
DocumentAfterParse(data) == data

\* The triggers cut to the first _MAX_TRIGGERS_PER_UNIT.
Truncated(triggers) ==
    IF IsList(triggers) /\ Len(triggers.l) > _MAX_TRIGGERS_PER_UNIT
    THEN List(SubSeq(triggers.l, 1, _MAX_TRIGGERS_PER_UNIT))
    ELSE triggers

\* The manifest were validate to drop the triggers in excess.
ManifestTruncated(m) ==
    [m EXCEPT !.units = [i \in 1..Len(m.units) |->
                            [m.units[i] EXCEPT !.triggers = Truncated(@)]]]

\* The manifest were validate to write down the version it assumes.
ManifestAssumingVersion(m) ==
    IF Truthy(m.kcp_version) THEN m ELSE [m EXCEPT !.kcp_version = Str("0.3")]

ManifestAfterValidate(m) == m

(***************************************************************************)
(* The inputs.  A document is the dict yaml.safe_load returns: a function  *)
(* from the keys present to their values.  Each family varies the fields   *)
(* one group of checks reads and keeps the others at MINIMAL's values.     *)
(***************************************************************************)
SeqsUpTo(S, n) == UNION {[1..k -> S] : k \in 0..n}

\* Every way to give (or omit, with Absent) each field of `fields` one of its values.
Absent == [ty |-> "absent"]
Settings(base, field, values) ==
    {IF v = Absent THEN Without(base, {field}) ELSE With(base, field, v) : v \in values}

Unit0(id) ==
    [id |-> Str(id), path |-> Str("a.md"), intent |-> Str("i"),
     scope |-> Str("global"), audience |-> List(<<Str("agent")>>)]

DictList(seq) == List([i \in 1..Len(seq) |-> Dict(seq[i])])

Doc0(units) == [project |-> Str("p"), kcp_version |-> Str("0.3"), units |-> DictList(units)]

ParseInput(data) ==
    [via |-> "parse_dict", data |-> data, manifest_dir |-> None, files |-> {}]

\* Required keys: each of project, units, id, path, intent present or absent.
RequiredUnits == {Without(Unit0("a"), ks) : ks \in SUBSET {"id", "path", "intent"}}
DocsRequired ==
    {Without(Doc0(us), ks) : us \in SeqsUpTo(RequiredUnits, MaxUnits), ks \in SUBSET {"project"}}
    \cup {Without(Doc0(<<>>), ks \cup {"units"}) : ks \in SUBSET {"project"}}

\* The root fields: empty, null or absent project and units.
DocsRoot ==
    UNION {Settings(d, "project", {Absent, None, Str(""), Str("p")}) :
             d \in Settings(Doc0(<<Unit0("a")>>), "units",
                            {Absent, None, Str(""), List(<<>>), List(<<Str("a")>>),
                             DictList(<<Unit0("a")>>)})}

\* Relationships with a key missing, dates that do not parse.
Rel0 == [from |-> Str("a"), to |-> Str("a"), type |-> Str("enables")]
DocsOther ==
    {With(Doc0(<<Unit0("a")>>), "relationships", DictList(<<Without(Rel0, ks)>>)) :
        ks \in {{}, {"from"}, {"to"}, {"type"}}}
    \cup Settings(Doc0(<<Unit0("a")>>), "version", {Str("1.0.0"), Str(""), None})
    \cup Settings(Doc0(<<Unit0("a")>>), "updated",
                  {Str("2026-02-25"), Date("2026-02-25"), Str("2026-02-30"), Str("soon"), None})
    \cup {Doc0(<<u>>) : u \in Settings(Unit0("a"), "validated",
                  {Str("2024-02-29"), Str("2026-13-01"), PyInt(7), None})}

\* Two units bearing one id, one relationship stated twice.
DocsRepeated ==
    {With(Doc0(<<Unit0("a"), With(Unit0("a"), "intent", Str("j"))>>),
          "relationships", DictList(<<Rel0, Rel0>>))}

\* Every kind of finding at once: no project, no unit or a unit with nothing
\* right, a relationship between unknown units.
DocsAllWrong ==
    LET UnitAllWrong ==
            [id |-> Str("a"), path |-> Str(""), intent |-> Str(""),
             scope |-> Str("invalid"), audience |-> List(<<Str("alien")>>)]
    IN {[project |-> Str(""), units |-> DictList(us),
         relationships |-> DictList(<<[from |-> Str("ghost"), to |-> Str("ghost"),
                                       type |-> Str("invented")]>>)] :
           us \in {<<>>, <<UnitAllWrong>>, <<Unit0(""), UnitAllWrong>>}}

\* The per-unit required fields, empty or not, and the scope.
FieldUnits ==
    UNION {Settings(u3, "scope", {Absent, Str(""), Str("module"), Str("invalid")}) :
      u3 \in UNION {Settings(u2, "intent", {Str(""), Str("i")}) :
        u2 \in UNION {Settings(u1, "path", {Str(""), Str("a.md")}) :
          u1 \in {Unit0(""), Unit0("a")}}}}

\* Null where a list or a string is expected, an id that is no string.
NullUnits ==
    {Unit0("a")}
    \cup {With(Unit0("a"), k, None) :
            k \in {"id", "path", "intent", "scope", "audience", "depends_on", "triggers"}}
    \cup {With(Unit0("a"), "id", PyInt(7))}

\* Ids that repeat, dependencies that are known, unknown, or the unit itself.
DepLists ==
    {Absent, List(<<Str("a")>>), List(<<Str("b")>>), List(<<Str("a"), Str("b")>>),
     List(<<Str("ghost")>>), List(<<Str("")>>)}
DepUnits ==
    UNION {Settings(u, "depends_on", DepLists) : u \in {Unit0(""), Unit0("a"), Unit0("b")}}

\* The optional typed fields of a unit and of the manifest.
LicenseObject == Dict([spdx |-> Str("CC-BY-4.0"), attribution_required |-> PyInt(1)])
IndexingObject == Dict([allow |-> List(<<Str("read")>>), deny |-> List(<<Str("train")>>)])
TypedFields ==
    {<<"kind", Str("schema")>>, <<"format", Str("openapi")>>,
     <<"content_type", Str("application/pdf")>>, <<"language", Str("en")>>,
     <<"license", Str("Apache-2.0")>>, <<"license", LicenseObject>>,
     <<"update_frequency", Str("monthly")>>,
     <<"indexing", Str("no-train")>>, <<"indexing", IndexingObject>>}
TypedUnits == {Unit0("a")} \cup {With(Unit0("a"), f[1], f[2]) : f \in TypedFields}
TypedRoots ==
    {<<"language", Str("en")>>, <<"license", Str("Apache-2.0")>>, <<"license", LicenseObject>>,
     <<"indexing", Str("open")>>, <<"indexing", IndexingObject>>}
DocsTyped ==
    {With(Doc0(<<Unit0("a")>>), f[1], f[2]) : f \in TypedRoots}

\* What only warns: trigger bounds, unknown audience, a missing file.
RECURSIVE Repeat(_, _)
Repeat(x, n) == IF n = 0 THEN <<>> ELSE <<x>> \o Repeat(x, n - 1)

TriggerLists ==
    {Absent,
     List(Repeat(Str("t"), _MAX_TRIGGERS_PER_UNIT)),
     List(Repeat(Str("t"), _MAX_TRIGGERS_PER_UNIT + 1)),
     List(<<Str(Join(Repeat("x", _MAX_TRIGGER_LENGTH)))>>),
     List(<<Str(Join(Repeat("x", _MAX_TRIGGER_LENGTH + 1)))>>)}
WarnUnits ==
    UNION {Settings(u2, "triggers", TriggerLists) :
      u2 \in UNION {Settings(u1, "audience", {List(<<Str("agent")>>), List(<<Str("alien")>>)}) :
        u1 \in Settings(Unit0("a"), "path", {Str("a.md"), Str("missing.md")})}}

\* Triggers at and over both bounds, on a unit with an id and on one without.
LongTrigger == Str(Join(Repeat("x", _MAX_TRIGGER_LENGTH + 1)))
TriggerUnits ==
    UNION {Settings(u, "triggers",
                    TriggerLists
                    \cup {List(Repeat(LongTrigger, _MAX_TRIGGERS_PER_UNIT + 1)),
                          List(<<LongTrigger, Str("t"), LongTrigger>>)}) :
             u \in {Unit0(""), Unit0("a")}}

\* The manifest-level advisories and the relationships.
Rels ==
    {Absent, DictList(<<Rel0>>),
     DictList(<<[from |-> Str("ghost"), to |-> Str("a"), type |-> Str("invented")]>>),
     DictList(<<[from |-> Str("a"), to |-> Str("ghost"), type |-> Str("context")],
                [from |-> Str("ghost"), to |-> Str("ghost"), type |-> None]>>)}
DocsAdvisory ==
    UNION {Settings(d, "relationships", Rels) :
             d \in Settings(Doc0(<<Unit0("a")>>), "kcp_version",
                            {Absent, Str(""), Str("0.1"), Str("9.9")})}

\* The base directory of the existence probe and what it holds.
BaseDir == Str("/repo")
FilesOnDisk == {<<"a.md">>}

\* Paths that are and are not on that disk, on a unit with an id and on one without.
ProbeUnits ==
    UNION {Settings(u, "path",
                    {Str(""), Str("a.md"), Str("./a.md"), Str("missing.md"), Str("a.md/x")}) :
             u \in {Unit0(""), Unit0("a")}}

\* Manifests built with the dataclass constructors, as the tests build them:
\* the enum-typed fields that parse_dict never sets.
Built(unit, field, v) == [unit EXCEPT ![field] = v]
Unit1(id) ==
    KnowledgeUnit(Str(id), Str("a.md"), Str("i"), Str("global"), List(<<Str("agent")>>),
                  None, List(<<>>), None, List(<<>>))
BuiltUnits ==
    {Unit1("a"), Unit1("b")}
    \cup {Built(Unit1("a"), "kind", v) : v \in {Str("schema"), Str("imaginary")}}
    \cup {Built(Unit1("a"), "format", v) : v \in {Str("pdf"), Str("docx")}}
    \cup {Built(Unit1("a"), "update_frequency", v) : v \in {Str("daily"), Str("biweekly")}}
    \cup {Built(Unit1("a"), "indexing", v) :
            v \in {Str("open"), Str("custom-unknown"), IndexingObject}}
    \cup {Built(Unit1(""), "kind", Str("imaginary")), Built(Unit1("a"), "kind", Str(""))}

\* The relationships of a manifest built so: none, or one of a type that is
\* unknown or None.
BuiltRels ==
    {<<>>,
     <<Relationship(Str("a"), Str("a"), Str("invented"))>>,
     <<Relationship(Str("a"), Str("a"), None)>>}

\* Units of dependency graphs over three ids: the edges of the two-node and
\* the three-node cycle, every edge at once, an edge stated twice after a
\* dangling one, no edge.
GraphUnits ==
    LET GraphUnit(id, deps) ==
            Built(Unit1(id), "depends_on", List([i \in 1..Len(deps) |-> Str(deps[i])]))
    IN {GraphUnit("a", <<"b">>), GraphUnit("b", <<"c">>), GraphUnit("c", <<"a">>),
        GraphUnit("b", <<"a">>),
        GraphUnit("a", <<"a", "b", "c">>), GraphUnit("b", <<"a", "b", "c">>),
        GraphUnit("c", <<"a", "b", "c">>),
        GraphUnit("a", <<"ghost", "a", "a">>),
        GraphUnit("c", <<>>)}

NoInput == [via |-> "none", data |-> <<>>, manifest_dir |-> None, files |-> {}]

(***************************************************************************)
(* The path-safety inputs: every string over the characters the check      *)
(* reads, in a document that is otherwise MINIMAL.                         *)
(***************************************************************************)
PathAlphabet == {"/", "\\", ".", "a"}

(***************************************************************************)
(* The state machine.  The caller first has its arguments (Supply), then   *)
(* parses, validates and asks for the cycle-closing edges.                 *)
(***************************************************************************)
Init ==
    /\ input = NoInput
    /\ raw = None
    /\ pc = "init"
    /\ path_result = Pending
    /\ manifest = Pending
    /\ result = Pending
    /\ cycles = Pending
    /\ again = [manifest |-> Pending, result |-> Pending]
    /\ walk = [adj |-> <<>>, state |-> <<>>, path_set |-> {}, cycle_edges |-> {},
               stack |-> <<>>, todo |-> {}, order |-> <<>>]
    /\ bridge = [agent_only |-> FALSE, server |-> Pending, listed |-> Pending,
                 read |-> [uri |-> "", outcome |-> Pending,
                           call |-> [path |-> None, outcome |-> Pending,
                                     probed |-> FALSE, opened |-> {}]]]

Have(in) ==
    /\ input' = in
    /\ pc' = "start"
    /\ UNCHANGED <<raw, path_result, manifest, result, cycles, again, walk, bridge>>

\* A document of `lo` to MaxUnits units, each drawn from `units`.
HaveUnits(units, lo) ==
    \E k \in lo..MaxUnits : \E us \in [1..k -> units] : Have(ParseInput(Doc0(us)))

\* The same, validated against a base directory.
HaveUnitsOnDisk(units, lo) ==
    \E k \in lo..MaxUnits : \E us \in [1..k -> units] :
        Have([ParseInput(Doc0(us)) EXCEPT !.manifest_dir = BaseDir, !.files = FilesOnDisk])

\* A manifest of 1 to MaxUnits units built without the parser.
HaveBuilt(units) ==
    \E k \in 1..MaxUnits : \E us \in [1..k -> units] : \E rs \in BuiltRels :
        Have([via |-> "constructor",
              data |-> KnowledgeManifest(Str("p"), Str("1.0.0"), Str("0.3"), None, us, rs),
              manifest_dir |-> None, files |-> {}])

\* yaml.safe_load hands over one document of the families above.
Supply ==
    /\ pc = "init"
    /\ \/ \E d \in DocsRequired \cup DocsRoot \cup DocsOther \cup DocsRepeated \cup DocsAllWrong
                      \cup DocsTyped \cup DocsAdvisory :
             Have(ParseInput(d))
       \/ HaveUnits(FieldUnits, 0)
       \/ HaveUnits(NullUnits, 1)
       \/ HaveUnits(DepUnits, 1)
       \/ HaveUnits(TypedUnits, 1)
       \/ HaveUnits(WarnUnits, 1)
       \/ HaveUnits(TriggerUnits, 1)
       \/ HaveUnitsOnDisk(WarnUnits, 1)
       \/ HaveUnitsOnDisk(ProbeUnits, 1)
       \/ HaveBuilt(BuiltUnits)

\* A path string, and the document MINIMAL with it as its unit's path.
SupplyPath ==
    /\ pc = "init"
    /\ \E n \in 0..MaxPathLen : \E cs \in [1..n -> PathAlphabet] :
          /\ raw' = Str(Join(cs))
          /\ input' = ParseInput(Doc0(<<With(Unit0("a"), "path", Str(Join(cs)))>>))
    /\ pc' = "start"
    /\ UNCHANGED <<path_result, manifest, result, cycles, again, walk, bridge>>

\* A direct call of _validate_unit_path(raw).
ValidateUnitPath ==
    /\ pc # "init"
    /\ path_result = Pending
    /\ path_result' = _validate_unit_path(raw)
    /\ UNCHANGED <<input, raw, pc, manifest, result, cycles, again, walk, bridge>>

\* manifest = parse_dict(data)
ParseDict ==
    /\ pc = "start"
    /\ input.via = "parse_dict"
    /\ manifest' = parse_dict(input.data)
    /\ input' = [input EXCEPT !.data = DocumentAfterParse(@)]
    /\ pc' = IF Returned(manifest') THEN "parsed" ELSE "failed"
    /\ UNCHANGED <<raw, path_result, result, cycles, again, walk, bridge>>

\* parse_dict(data) once more, on the document the first call left.
ParseAgain ==
    /\ pc \in {"parsed", "failed"}
    /\ input.via = "parse_dict"
    /\ again' = [again EXCEPT !.manifest = parse_dict(input.data)]
    /\ input' = [input EXCEPT !.data = DocumentAfterParse(@)]
    /\ pc' = "parsed twice"
    /\ UNCHANGED <<raw, path_result, manifest, result, cycles, walk, bridge>>

\* manifest = KnowledgeManifest(..., units=[KnowledgeUnit(...), ...])
Construct ==
    /\ pc = "start"
    /\ input.via = "constructor"
    /\ manifest' = Return(input.data)
    /\ pc' = "parsed"
    /\ UNCHANGED <<input, raw, path_result, result, cycles, again, walk, bridge>>

\* result = validate(manifest, manifest_dir)
Validate ==
    /\ pc = "parsed"
    /\ result' = validate(manifest.value, input.manifest_dir, input.files)
    /\ manifest' = Return(ManifestAfterValidate(manifest.value))
    /\ pc' = "validated"
    /\ UNCHANGED <<input, raw, path_result, cycles, again, walk, bridge>>

\* validate(manifest, manifest_dir) once more, on the manifest the first call left.
ValidateAgain ==
    /\ pc = "validated"
    /\ again' = [again EXCEPT
                   !.result = validate(manifest.value, input.manifest_dir, input.files)]
    /\ manifest' = Return(ManifestAfterValidate(manifest.value))
    /\ pc' = "validated twice"
    /\ UNCHANGED <<input, raw, path_result, result, cycles, walk, bridge>>

\* A direct call of _detect_cycles(manifest.units).
DetectCycles ==
    /\ pc = "validated"
    /\ \E order \in Orders(UnitIds(manifest.value.units)) :
          cycles' = _detect_cycles(manifest.value.units, order)
    /\ pc' = "done"
    /\ UNCHANGED <<input, raw, path_result, manifest, result, again, walk, bridge>>

Next ==
    Supply \/ ParseDict \/ ParseAgain \/ Construct \/ Validate \/ ValidateAgain \/ DetectCycles

Spec == Init /\ [][Next]_vars

NextPath == SupplyPath \/ ValidateUnitPath \/ ParseDict

SpecPath == Init /\ [][NextPath]_vars

(***************************************************************************)
(* _detect_cycles statement by statement.  A frame of dfs is its node and  *)
(* the position its `for dep in adj.get(node, [])` has reached; the loop   *)
(* `for uid in unit_ids` meets the ids of the set in any order.            *)
(***************************************************************************)
\* A manifest of 1 to MaxUnits + 1 units over three ids, built without the parser.
SupplyGraph ==
    /\ pc = "init"
    /\ \E k \in 1..(MaxUnits + 1) : \E us \in [1..k -> GraphUnits] :
          LET m == KnowledgeManifest(Str("p"), Str("1.0.0"), Str("0.3"), None, us, <<>>) IN
          /\ input' = [via |-> "constructor", data |-> m, manifest_dir |-> None, files |-> {}]
          /\ manifest' = Return(m)
    /\ pc' = "graph"
    /\ UNCHANGED <<raw, path_result, result, cycles, again, walk, bridge>>

\* adj, unit_ids, cycle_edges = set(), state = {uid: 0 for uid in unit_ids}
BuildAdjacency ==
    /\ pc = "graph"
    /\ ~DetectCyclesRaises(manifest.value.units)
    /\ walk' = [adj |-> Adjacency(manifest.value.units),
                state |-> [uid \in UnitIds(manifest.value.units) |-> 0],
                path_set |-> {},
                cycle_edges |-> {},
                stack |-> <<>>,
                todo |-> UnitIds(manifest.value.units),
                order |-> <<>>]
    /\ pc' = "walking"
    /\ UNCHANGED <<input, raw, path_result, manifest, result, cycles, again, bridge>>

\* dfs(node, path_set) begins: state[node] = 1; path_set.add(node)
Enter(w, node) ==
    [w EXCEPT !.state[node] = 1,
              !.path_set = @ \cup {node},
              !.stack = Append(@, [node |-> node, next |-> 1])]

\* for uid in unit_ids: if state[uid] == 0: dfs(uid, set())
StartDfs ==
    /\ pc = "walking"
    /\ walk.stack = <<>>
    /\ \E uid \in walk.todo :
          LET met == [walk EXCEPT !.todo = @ \ {uid}, !.order = Append(@, uid)] IN
          walk' = IF walk.state[uid] = 0 THEN Enter([met EXCEPT !.path_set = {}], uid) ELSE met
    /\ UNCHANGED <<input, raw, pc, path_result, manifest, result, cycles, again, bridge>>

\* The test were every dep that is not unvisited taken for one on the path.
OnPathOrFinished(w, dep) == w.state[dep] >= 1

\* The test were it left out: every edge walked is recorded.
OnPathOrNot(w, dep) == TRUE

\* if state[dep] == 1
OnPath(w, dep) == w.state[dep] = 1

\* One turn of `for dep in adj.get(node, [])`.
VisitDep ==
    /\ pc = "walking"
    /\ walk.stack # <<>>
    /\ LET top == walk.stack[Len(walk.stack)]
           deps == walk.adj[top.node]
       IN /\ top.next <= Len(deps)
          /\ LET dep == deps[top.next]
                 turned == [walk EXCEPT !.stack[Len(walk.stack)].next = @ + 1]
             IN walk' = IF OnPath(walk, dep)
                        THEN [turned EXCEPT !.cycle_edges = @ \cup {<<top.node, dep>>}]
                        ELSE IF walk.state[dep] = 0 THEN Enter(turned, dep)
                        ELSE turned
    /\ UNCHANGED <<input, raw, pc, path_result, manifest, result, cycles, again, bridge>>

\* The end of dfs were the node handed back as unvisited.
LeaveUnvisited ==
    /\ pc = "walking"
    /\ walk.stack # <<>>
    /\ LET top == walk.stack[Len(walk.stack)] IN
       /\ top.next > Len(walk.adj[top.node])
       /\ walk' = [walk EXCEPT !.path_set = @ \ {top.node},
                               !.state[top.node] = 0,
                               !.stack = SubSeq(@, 1, Len(@) - 1)]
    /\ UNCHANGED <<input, raw, pc, path_result, manifest, result, cycles, again, bridge>>

\* The loop of dfs is over: path_set.discard(node); state[node] = 2
Leave ==
    /\ pc = "walking"
    /\ walk.stack # <<>>
    /\ LET top == walk.stack[Len(walk.stack)] IN
       /\ top.next > Len(walk.adj[top.node])
       /\ walk' = [walk EXCEPT !.path_set = @ \ {top.node},
                               !.state[top.node] = 2,
                               !.stack = SubSeq(@, 1, Len(@) - 1)]
    /\ UNCHANGED <<input, raw, pc, path_result, manifest, result, cycles, again, bridge>>

\* return cycle_edges
ReturnEdges ==
    /\ pc = "walking"
    /\ walk.stack = <<>>
    /\ walk.todo = {}
    /\ cycles' = Return(walk.cycle_edges)
    /\ pc' = "returned"
    /\ UNCHANGED <<input, raw, path_result, manifest, result, again, walk, bridge>>

NextCycles == SupplyGraph \/ BuildAdjacency \/ StartDfs \/ VisitDep \/ Leave \/ ReturnEdges

SpecCycles == Init /\ [][NextCycles]_vars

\* The interpreter keeps running its one thread.
SpecCyclesFair == SpecCycles /\ WF_vars(NextCycles)

(***************************************************************************)
(* The MCP bridge: kcp_mcp/mapper.py, kcp_mcp/content.py and               *)
(* kcp_mcp/server.py.  A resource is kept as its uri and its name; the     *)
(* content of a file is kept as the file it was read from, for a text file *)
(* (read_text) and for a binary one (read_bytes, b64encode and the         *)
(* b64decode of read_resource) alike.                                      *)
(***************************************************************************)
\* mapper.py: project_slug
project_slug(project) ==
    LET Upper == "ABCDEFGHIJKLMNOPQRSTUVWXYZ"
        Lower == "abcdefghijklmnopqrstuvwxyz"
        Kept == Lower \o "0123456789-"
        In(c, s) == \E i \in 1..Len(s) : SubSeq(s, i, i) = c
        lower(c) ==
            IF In(c, Upper)
            THEN LET i == CHOOSE j \in 1..Len(Upper) : SubSeq(Upper, j, j) = c
                 IN SubSeq(Lower, i, i)
            ELSE c
        RECURSIVE Replaced(_)
        \* project.lower().replace(" ", "-")
        Replaced(s) ==
            IF s = "" THEN ""
            ELSE (IF SubSeq(s, 1, 1) = " " THEN "-" ELSE lower(SubSeq(s, 1, 1)))
                 \o Replaced(SubSeq(s, 2, Len(s)))
        RECURSIVE Sub(_)
        \* re.sub(r"[^a-z0-9\-]", "", slug)
        Sub(s) ==
            IF s = "" THEN ""
            ELSE (IF In(SubSeq(s, 1, 1), Kept) THEN SubSeq(s, 1, 1) ELSE "")
                 \o Sub(SubSeq(s, 2, Len(s)))
        RECURSIVE Collapsed(_)
        \* re.sub(r"-+", "-", slug)
        Collapsed(s) ==
            IF Len(s) < 2 THEN s
            ELSE IF SubSeq(s, 1, 2) = "--" THEN Collapsed(SubSeq(s, 2, Len(s)))
            ELSE SubSeq(s, 1, 1) \o Collapsed(SubSeq(s, 2, Len(s)))
        \* .strip("-"), of a string with no two hyphens in a row
        Stripped(s) ==
            LET lo == IF StartsWith(s, "-") THEN 2 ELSE 1
                hi == IF Len(s) >= 2 /\ SubSeq(s, Len(s), Len(s)) = "-"
                      THEN Len(s) - 1 ELSE Len(s)
            IN SubSeq(s, lo, hi)
    IN IF ~IsStr(project) THEN Raise("AttributeError", "lower")
       ELSE LET slug == Stripped(Collapsed(Sub(Replaced(project.s))))
            IN Return(IF slug = "" THEN "project" ELSE slug)

\* mapper.py: unit_uri, manifest_uri
unit_uri(slug, unit_id) == "knowledge://" \o slug \o "/" \o unit_id
manifest_uri(slug) == "knowledge://" \o slug \o "/manifest"

\* server.py: resource_list, the manifest resource and then one resource for
\* each unit the loop does not skip.
resource_list(slug, m, agent_only) ==
    LET units == m.units
        Agent(audience) ==
            CASE audience.ty = "list" -> Str("agent") \in Range(audience.l)
              [] audience.ty = "dict" -> "agent" \in DOMAIN audience.d
              [] audience.ty = "str" ->
                   \E i \in 1..Len(audience.s) : SubSeq(audience.s, i, i + 4) = "agent"
              [] OTHER -> FALSE
        Kept(unit) == ~(agent_only /\ ~Agent(unit.audience))
        kept == SelectSeq(units, Kept)
    IN IF agent_only /\ \E i \in 1..Len(units) :
                           units[i].audience.ty \notin {"list", "dict", "str"}
       THEN Raise("TypeError", "argument is not iterable")
       ELSE Return(<<[uri |-> manifest_uri(slug), name |-> Str("manifest")]>>
                   \o [i \in 1..Len(kept) |->
                          [uri |-> unit_uri(slug, kept[i].id.s), name |-> kept[i].id]])

\* content.py: (manifest_dir / unit_path).resolve().  There is no symbolic
\* link on the disk, so the path is resolved by its segments alone: a root
\* starts over, ".." drops a segment, and "/.." is "/".
Resolved(manifest_dir, unit_path) ==
    LET RECURSIVE From(_, _)
        From(cur, parts) ==
            IF parts = <<>> THEN cur ELSE From(Step(cur, Head(parts)), Tail(parts))
    IN From(PurePosixPathParts(manifest_dir.s), PurePosixPathParts(unit_path.s))

\* read_resource_content with the existence check ahead of the root check.
read_resource_contentExistsFirst(manifest_dir, files, unit_path) ==
    LET resolved == Resolved(manifest_dir, unit_path)
        root == PurePosixPathParts(manifest_dir.s)
        below == SubSeq(resolved, Len(root) + 1, Len(resolved))
        call == [path |-> unit_path, outcome |-> Pending, probed |-> TRUE, opened |-> {}]
    IN IF ~IsStr(unit_path)
       THEN [call EXCEPT !.outcome = Raise("TypeError", "unsupported operand"),
                         !.probed = FALSE]
       ELSE IF IsPrefix(root, resolved) /\ ~Exists(files, below)
       THEN [call EXCEPT !.outcome = Raise("ResourceNotFoundError", "Resource not found")]
       ELSE IF ~IsPrefix(root, resolved)
       THEN [call EXCEPT !.outcome = Raise("PathTraversalError", "Path escapes manifest root")]
       ELSE IF IsDir(files, below)
       THEN [call EXCEPT !.outcome = Raise("IsADirectoryError", "Is a directory"),
                         !.opened = {resolved}]
       ELSE [call EXCEPT !.outcome = Return([index |-> FALSE, file |-> resolved]),
                         !.opened = {resolved}]

\* content.py: read_resource_content.  `probed` is whether exists() was
\* called, `opened` the files that were opened for reading.
read_resource_content(manifest_dir, files, unit_path) ==
    LET resolved == Resolved(manifest_dir, unit_path)
        root == PurePosixPathParts(manifest_dir.s)
        below == SubSeq(resolved, Len(root) + 1, Len(resolved))
        call == [path |-> unit_path, outcome |-> Pending, probed |-> FALSE, opened |-> {}]
    IN IF ~IsStr(unit_path)
       THEN [call EXCEPT !.outcome = Raise("TypeError", "unsupported operand")]
       ELSE IF ~IsPrefix(root, resolved)
       THEN [call EXCEPT !.outcome = Raise("PathTraversalError", "Path escapes manifest root")]
       ELSE IF ~Exists(files, below)
       THEN [call EXCEPT !.outcome = Raise("ResourceNotFoundError", "Resource not found"),
                         !.probed = TRUE]
       ELSE IF IsDir(files, below)
       THEN [call EXCEPT !.outcome = Raise("IsADirectoryError", "Is a directory"),
                         !.probed = TRUE, !.opened = {resolved}]
       ELSE [call EXCEPT !.outcome = Return([index |-> FALSE, file |-> resolved]),
                         !.probed = TRUE, !.opened = {resolved}]

\* server.py: read_resource of the server that create_server returned.
read_resource(server, uri_str) ==
    LET prefix == "knowledge://" \o server.slug \o "/"
        unit_id == SubSeq(uri_str, Len(prefix) + 1, Len(uri_str))
        read == [uri |-> uri_str, outcome |-> Pending,
                 call |-> [path |-> None, outcome |-> Pending, probed |-> FALSE,
                           opened |-> {}]]
    IN IF uri_str = server.m_uri
       THEN [read EXCEPT !.outcome = Return([index |-> TRUE, file |-> <<>>])]
       ELSE IF ~StartsWith(uri_str, prefix)
       THEN [read EXCEPT !.outcome = Raise("ValueError", "Unknown resource URI")]
       ELSE IF Str(unit_id) \notin DOMAIN server.unit_index
       THEN [read EXCEPT !.outcome = Raise("ValueError", "No unit with id")]
       ELSE LET unit == server.unit_index[Str(unit_id)]
                call == read_resource_content(server.manifest_dir, server.files, unit.path)
            IN [read EXCEPT
                  !.call = call,
                  !.outcome =
                     IF Raised(call.outcome)
                          /\ call.outcome.exc \in {"ResourceNotFoundError", "PathTraversalError"}
                     THEN Raise("ValueError", call.outcome.msg)
                     ELSE call.outcome]

\* The units of the served manifests: an audience with and one without
\* "agent", two files, and "manifest" among the ids.
ServedUnits ==
    UNION {Settings(u2, "path", {Str("a.md"), Str("b.md")}) :
      u2 \in UNION {Settings(u1, "audience",
                             {List(<<Str("human")>>), List(<<Str("human"), Str("agent")>>)}) :
        u1 \in {Unit0("a"), Unit0("b"), Unit0("manifest")}}}

\* The directory of knowledge.yaml holds three files.
ServedFiles == {<<"a.md">>, <<"b.md">>, <<"a">>}

\* A knowledge.yaml of 1 to MaxUnits units, and the agent_only the server is
\* to be created with (False when it is not given).
SupplyBridge ==
    /\ pc = "init"
    /\ \E k \in 1..MaxUnits : \E us \in [1..k -> ServedUnits] :
       \E project \in {Str("My  KB!"), Str("")} :
          input' = ParseInput(With(Doc0(us), "project", project))
    /\ \E agent_only \in BOOLEAN : bridge' = [bridge EXCEPT !.agent_only = agent_only]
    /\ pc' = "start"
    /\ UNCHANGED <<raw, path_result, manifest, result, cycles, again, walk>>

\* server = create_server(manifest_path, agent_only), after its parse(manifest_path).
CreateServer ==
    /\ pc = "parsed"
    /\ LET agent_only == bridge.agent_only
           m == manifest.value
           slug == project_slug(m.project)
           resources == resource_list(slug.value, m, agent_only)
       IN bridge' =
              [bridge EXCEPT !.server =
                 IF Raised(slug) THEN slug
                 ELSE IF Raised(resources) THEN resources
                 ELSE IF \E i \in 1..Len(m.units) : ~Hashable(m.units[i].id)
                 THEN Raise("TypeError", "unhashable type")
                 ELSE Return([agent_only |-> agent_only, manifest_dir |-> BaseDir,
                              files |-> ServedFiles, slug |-> slug.value,
                              m_uri |-> manifest_uri(slug.value),
                              resource_list |-> resources.value,
                              unit_index |-> unit_index(m.units)])]
    /\ pc' = IF Returned(bridge'.server) THEN "serving" ELSE "failed"
    /\ UNCHANGED <<input, raw, path_result, manifest, result, cycles, again, walk>>

\* The list_resources handler.
ListResources ==
    /\ pc = "serving"
    /\ bridge.listed = Pending
    /\ bridge' = [bridge EXCEPT !.listed = Return(bridge.server.value.resource_list)]
    /\ UNCHANGED <<input, raw, pc, path_result, manifest, result, cycles, again, walk>>

\* The read_resource handler, on a URI of the list, on the URI of any unit of
\* the manifest, of no unit and of another project.
ReadResource ==
    /\ pc = "serving"
    /\ LET server == bridge.server.value IN
       \E uri \in {server.resource_list[i].uri : i \in 1..Len(server.resource_list)}
                  \cup {unit_uri(server.slug, id.s) : id \in UnitIds(manifest.value.units)}
                  \cup {unit_uri(server.slug, "nonexistent"), unit_uri("other-project", "a")} :
          /\ bridge.read.uri # uri
          /\ bridge' = [bridge EXCEPT !.read = read_resource(server, uri)]
    /\ UNCHANGED <<input, raw, pc, path_result, manifest, result, cycles, again, walk>>

NextBridge ==
    SupplyBridge \/ SupplyPath \/ ParseDict \/ CreateServer \/ ListResources \/ ReadResource

SpecBridge == Init /\ [][NextBridge]_vars

(***************************************************************************)
(* Path safety.                                                            *)
(***************************************************************************)
\* The characters of s up to its first "/".
RECURSIVE UpToSlash(_)
UpToSlash(s) ==
    IF s = "" \/ SubSeq(s, 1, 1) = "/" THEN ""
    ELSE SubSeq(s, 1, 1) \o UpToSlash(SubSeq(s, 2, Len(s)))

\* The first segment of s that is neither empty nor ".", "" when there is none.
RECURSIVE LeadingSegment(_)
LeadingSegment(s) ==
    IF s = "" THEN ""
    ELSE LET seg == UpToSlash(s)
             rest == SubSeq(s, Len(seg) + 2, Len(s))
         IN IF seg \in {"", "."} THEN LeadingSegment(rest) ELSE seg

LooksAbsolute(s) == s # "" /\ SubSeq(s, 1, 1) \in {"/", "\\"}

PathVerdict(s) ==
    IF LooksAbsolute(s) THEN Raise("ValueError", "Unit path must be relative")
    ELSE IF LeadingSegment(s) = ".." THEN Raise("ValueError", "Unit path escapes manifest root")
    ELSE Return(Str(s))

RECURSIVE StaysInside(_, _)
StaysInside(segs, depth) ==
    IF segs = <<>> THEN TRUE
    ELSE IF Head(segs) \in {"", "."} THEN StaysInside(Tail(segs), depth)
    ELSE IF Head(segs) = ".." THEN depth > 0 /\ StaysInside(Tail(segs), depth - 1)
    ELSE StaysInside(Tail(segs), depth + 1)

\* C2: in every manifest parse_dict returns, every unit's path is relative and
\* resolving its segments (each ".." removing the segment before it) never
\* goes above the manifest root.
C2_ParsedPathsStayInsideRoot ==
    pc = "parsed" =>
        \A i \in 1..Len(manifest.value.units) :
            LET path == manifest.value.units[i].path IN
            IsStr(path) => ~LooksAbsolute(path.s) /\ StaysInside(Split(path.s, "/"), 0)

(***************************************************************************)
(* Required keys.                                                          *)
(***************************************************************************)
RequiredUnitKeys == {"id", "path", "intent"}

\* Some unit of the document lacks one of its required keys.
UnitLacksRequired(data) ==
    /\ Has(data, "units")
    /\ IsList(data["units"])
    /\ \E i \in 1..Len(data["units"].l) :
          LET u == data["units"].l[i] IN
          u.ty = "dict" /\ ~(RequiredUnitKeys \subseteq DOMAIN u.d)

\* The document went through parse_dict, which has returned or raised.
Parsed == input.via = "parse_dict" /\ manifest # Pending

\* C3 as stated: parse_dict never returns a manifest built from a document
\* that lacks 'project', lacks the 'units' container, or has a unit lacking
\* 'id', 'path' or 'intent'.
C3_RequiredKeysRefused ==
    (Parsed /\ Returned(manifest)) =>
        /\ Has(input.data, "project")
        /\ Has(input.data, "units")
        /\ ~UnitLacksRequired(input.data)

\* C3: parse_dict fails whenever the document lacks 'project' or has a unit
\* lacking 'id', 'path' or 'intent'; a document that has 'project' and only
\* lacks the 'units' container is parsed, into a manifest of no units.
C3_RequiredKeys ==
    Parsed =>
        /\ (~Has(input.data, "project") \/ UnitLacksRequired(input.data))
              => Raised(manifest)
        /\ (DOMAIN input.data \subseteq {"project", "version", "kcp_version"}
              /\ Has(input.data, "project"))
              => Returned(manifest) /\ manifest.value.units = <<>>

\* The second of two units lacks 'intent', the document is otherwise whole,
\* and parse_dict has raised for that key.
C3_Witness ==
    /\ Parsed
    /\ Has(input.data, "project")
    /\ UnitLacksRequired(input.data)
    /\ Len(input.data["units"].l) = 2
    /\ RequiredUnitKeys \subseteq DOMAIN input.data["units"].l[1].d
    /\ manifest = Raise("KeyError", "intent")

(***************************************************************************)
(* Totality of validate.                                                   *)
(***************************************************************************)
\* validate has been called and has returned or raised.
Validated == result # Pending

\* C4 as stated: validate returns a ValidationResult, never raising, for
\* every manifest parse_dict can return, null list fields and ids or paths
\* that are no strings included.
C4_ValidateIsTotal ==
    (Validated /\ input.via = "parse_dict") => Returned(result)

(***************************************************************************)
(* Errors and validity.                                                    *)
(***************************************************************************)
Present(v) == v # None /\ v # Str("")

ScopeValues == {Str("global"), Str("project"), Str("module")}

\* The required fields are all there: what the errors are about.
WellFormed(m) ==
    /\ Present(m.project)
    /\ m.units # <<>>
    /\ \A i \in 1..Len(m.units) :
          /\ Present(m.units[i].id)
          /\ Present(m.units[i].path)
          /\ Present(m.units[i].intent)
          /\ m.units[i].scope \in ScopeValues

\* C5: is_valid holds exactly when errors is empty, and errors is empty
\* exactly when project is non-empty, units is non-empty and every unit has a
\* non-empty id, path and intent and a scope in {global, project, module};
\* nothing else (unknown enum values, dangling references, duplicate ids,
\* trigger bounds, missing files, kcp_version, cycles) adds an error.
C5_ValidIffRequiredFields ==
    Returned(result) =>
        /\ is_valid(result.value) <=> result.value.errors = <<>>
        /\ result.value.errors = <<>> <=> WellFormed(manifest.value)

\* A manifest with three advisories at once, and valid all the same.
C5_Witness ==
    /\ Returned(result)
    /\ WellFormed(manifest.value)
    /\ is_valid(result.value)
    /\ Len(result.value.warnings) >= 3

(***************************************************************************)
(* The scope of a unit, from the document to the verdict.                  *)
(***************************************************************************)
ScopeRules == {"'scope' is required", "'scope' must be one of"}

\* errors holds a scope error naming the unit `id`.
HasScopeError(id) ==
    \E k \in 1..Len(result.value.errors) :
        LET e == result.value.errors[k] IN
        "id" \in DOMAIN e /\ e.id = id /\ e.rule \in ScopeRules

\* The units of the document, when it is a list of dicts.
DocUnits == IF IsList(UnitsOf(input.data)) THEN UnitsOf(input.data).l ELSE <<>>

\* The document went through parse_dict and validate, and both returned.
ParsedAndValidated == Parsed /\ Returned(manifest) /\ Returned(result)

\* C6 as stated, for the units validate checks in full (a non-empty id that
\* no other unit bears): a unit that omits 'scope', or whose scope is outside
\* {global, project, module}, gets a scope error and the manifest is not
\* valid; a unit whose scope is inside the set gets no scope error.
C6_ScopeRequired ==
    ParsedAndValidated =>
        \A i \in 1..Len(DocUnits) :
            LET u == DocUnits[i].d
                unit == manifest.value.units[i]
            IN (Present(unit.id)
                /\ \A j \in 1..Len(DocUnits) : j # i => manifest.value.units[j].id # unit.id)
               => IF Has(u, "scope") /\ u["scope"] \in ScopeValues
                  THEN ~HasScopeError(unit.id)
                  ELSE HasScopeError(unit.id) /\ ~is_valid(result.value)

(***************************************************************************)
(* The optional typed fields.                                              *)
(***************************************************************************)
TypedUnitKeys ==
    {"kind", "format", "content_type", "language", "license", "update_frequency", "indexing"}
TypedRootKeys == {"language", "license", "indexing"}

\* C7 as stated: parse_dict carries kind, format, content_type, language,
\* license, update_frequency and indexing of every unit, and language, license
\* and indexing of the manifest, from the document into the Manifest (None
\* when absent).
C7_TypedFieldsCarried ==
    (Parsed /\ Returned(manifest)) =>
        /\ \A k \in TypedRootKeys : manifest.value[k] = Get(input.data, k, None)
        /\ \A i \in 1..Len(DocUnits) : \A k \in TypedUnitKeys :
              manifest.value.units[i][k] = Get(DocUnits[i].d, k, None)

(***************************************************************************)
(* Repeated ids.                                                           *)
(***************************************************************************)
\* The first unit, in manifest order, bearing `id`.
FirstOccurrence(units, id) ==
    units[CHOOSE i \in 1..Len(units) :
            units[i].id = id /\ \A j \in 1..(i - 1) : units[j].id # id]

\* C8 as stated: when units share an id, the adjacency _detect_cycles builds
\* takes the depends_on of the first unit bearing it, and the unit index of
\* the bridge serves that first unit.
C8_FirstOccurrenceWins ==
    Returned(cycles) =>
        LET units == manifest.value.units IN
        \A id \in UnitIds(units) :
            /\ Adjacency(units)[id] = KnownDeps(FirstOccurrence(units, id), UnitIds(units))
            /\ unit_index(units)[id] = FirstOccurrence(units, id)

DuplicateRule == "duplicate 'id'"

\* The positions of the 'duplicate' warnings naming `id`.
DuplicateWarnings(id) ==
    {k \in 1..Len(result.value.warnings) :
        result.value.warnings[k].rule = DuplicateRule /\ result.value.warnings[k].id = id}

Occurrences(units, id) == {i \in 1..Len(units) : units[i].id = id}

\* C9: validate emits exactly one 'duplicate' warning for each unit whose
\* non-empty id occurred earlier in the sequence and none for a first
\* occurrence (so an id borne by n units draws n - 1 of them, and no other
\* id draws any); a duplicate is never an error, and a manifest whose
\* required fields are in order stays valid with its duplicates.
C9_OneWarningPerRepeat ==
    Returned(result) =>
        LET units == manifest.value.units IN
        /\ \A id \in UnitIds(units) :
              Present(id) =>
                Cardinality(DuplicateWarnings(id)) = Cardinality(Occurrences(units, id)) - 1
        /\ \A k \in 1..Len(result.value.warnings) :
              result.value.warnings[k].rule = DuplicateRule
                => /\ Present(result.value.warnings[k].id)
                   /\ result.value.warnings[k].id \in UnitIds(units)
        /\ \A k \in 1..Len(result.value.errors) : result.value.errors[k].rule # DuplicateRule
        /\ WellFormed(manifest.value) => is_valid(result.value)

\* Every unit of the manifest bears the same id, the warnings say so, and the
\* manifest is valid.
C9_Witness ==
    /\ Returned(result)
    /\ Len(manifest.value.units) >= 2
    /\ Cardinality(UnitIds(manifest.value.units)) = 1
    /\ \E id \in UnitIds(manifest.value.units) :
          Cardinality(DuplicateWarnings(id)) = Len(manifest.value.units) - 1
    /\ is_valid(result.value)

(***************************************************************************)
(* A unit that depends on itself.                                          *)
(***************************************************************************)
DependsOnItself(unit) ==
    IsList(unit.depends_on) /\ unit.id \in Range(unit.depends_on.l)

\* C10 as stated: for every unit whose depends_on holds its own id,
\* _detect_cycles returns a set holding the edge (id, id); and validate finds
\* a manifest valid whose only irregularity is such a self-reference.
C10_SelfReferenceReported ==
    /\ Returned(cycles) =>
          (\A i \in 1..Len(manifest.value.units) :
              LET unit == manifest.value.units[i] IN
              DependsOnItself(unit) => <<unit.id, unit.id>> \in cycles.value)
    /\ (/\ Returned(result)
        /\ \E i \in 1..Len(manifest.value.units) : DependsOnItself(manifest.value.units[i])
        /\ WellFormed(manifest.value))
          => is_valid(result.value)

(***************************************************************************)
(* Cycles and the validation result.                                       *)
(***************************************************************************)
DependsOnRule == "'depends_on' references unknown unit"

\* Every depends_on entry of every unit names a unit of the manifest.
AllDepsKnown(m) ==
    \A i \in 1..Len(m.units) :
        /\ IsList(m.units[i].depends_on)
        /\ Range(m.units[i].depends_on.l) \subseteq UnitIds(m.units)

\* The manifest with every depends_on emptied: the same units, no edge.
WithoutEdges(m) ==
    [m EXCEPT !.units = [i \in 1..Len(m.units) |->
                            [m.units[i] EXCEPT !.depends_on = List(<<>>)]]]

\* C11: cycles are silently tolerated.  For a manifest whose depends_on
\* entries all name known units, validate returns what it returns for the same
\* units with no edge at all, whatever the edges and their cycles; and when
\* the required fields are valid too, it returns no error and no warning
\* about depends_on.
C11_CyclesTolerated ==
    (Returned(result) /\ AllDepsKnown(manifest.value)) =>
        /\ result = validate(WithoutEdges(manifest.value), input.manifest_dir, input.files)
        /\ WellFormed(manifest.value) =>
              /\ result.value.errors = <<>>
              /\ \A k \in 1..Len(result.value.warnings) :
                    result.value.warnings[k].rule # DependsOnRule

\* Two units that depend on each other, one of them on itself as well: the
\* cycle is found and the result is clean.
C11_Witness ==
    /\ Returned(result)
    /\ Returned(cycles)
    /\ AllDepsKnown(manifest.value)
    /\ WellFormed(manifest.value)
    /\ Cardinality(UnitIds(manifest.value.units)) = 2
    /\ \E e \in cycles.value : e[1] # e[2]
    /\ \E e \in cycles.value : e[1] = e[2]
    /\ result.value.errors = <<>>

(***************************************************************************)
(* Dangling references.                                                    *)
(***************************************************************************)
FromRule == "'from' references unknown unit"
ToRule == "'to' references unknown unit"

\* The depends_on entries <<i, j>> (entry j of unit i) that name no unit;
\* those of units with an empty id count only when `all` is TRUE.
Dangling(m, all) ==
    {p \in UNION {{<<i, j>> : j \in 1..Len(m.units[i].depends_on.l)} : i \in 1..Len(m.units)} :
        /\ all \/ Present(m.units[p[1]].id)
        /\ m.units[p[1]].depends_on.l[p[2]] \notin UnitIds(m.units)}

\* The positions of the warnings of `rule` about the unit `id` naming `arg`.
UnitWarningsAbout(rule, id, arg) ==
    {k \in 1..Len(result.value.warnings) :
        LET w == result.value.warnings[k] IN
        w.rule = rule /\ w.id = id /\ w.arg = arg}

\* The positions of the warnings of `rule` about a relationship from `f` to `t`.
RelWarningsAbout(rule, f, t) ==
    {k \in 1..Len(result.value.warnings) :
        LET w == result.value.warnings[k] IN
        w.rule = rule /\ w.from_id = f /\ w.to_id = t /\ w.arg = (IF rule = FromRule THEN f ELSE t)}

\* The manifest with no depends_on entry and no relationship.
WithoutReferences(m) == [WithoutEdges(m) EXCEPT !.relationships = <<>>]

\* One depends_on warning naming the id for each entry of `dangling`, and no other.
DependsOnWarned(m, dangling) ==
    /\ Cardinality({k \in 1..Len(result.value.warnings) :
                       result.value.warnings[k].rule = DependsOnRule})
         = Cardinality(dangling)
    /\ \A p \in dangling :
          LET id == m.units[p[1]].id
              dep == m.units[p[1]].depends_on.l[p[2]]
          IN Cardinality(UnitWarningsAbout(DependsOnRule, id, dep))
               = Cardinality({q \in dangling :
                     m.units[q[1]].id = id /\ m.units[q[1]].depends_on.l[q[2]] = dep})

\* One warning naming the id for each relationship endpoint that names no
\* unit, and no other.
EndpointsWarned(m) ==
    \A j \in 1..Len(m.relationships) :
        LET f == m.relationships[j].from_id
            t == m.relationships[j].to_id
            same == {i \in 1..Len(m.relationships) :
                       m.relationships[i].from_id = f /\ m.relationships[i].to_id = t}
        IN /\ Cardinality(RelWarningsAbout(FromRule, f, t))
                = (IF f \in UnitIds(m.units) THEN 0 ELSE Cardinality(same))
           /\ Cardinality(RelWarningsAbout(ToRule, f, t))
                = (IF t \in UnitIds(m.units) THEN 0 ELSE Cardinality(same))

\* The errors are those of the manifest without its references.
ReferencesAddNoError(m) ==
    result.value.errors
      = validate(WithoutReferences(m), input.manifest_dir, input.files).value.errors

\* The document has every key parse_dict subscripts and no value it could
\* refuse: whatever its depends_on entries and relationship endpoints name.
WholeButForReferences(data) ==
    /\ {"project", "units"} \subseteq DOMAIN data
    /\ DOMAIN data \subseteq {"project", "version", "kcp_version", "units", "relationships"}
    /\ IsList(data["units"])
    /\ \A i \in 1..Len(data["units"].l) :
          LET u == data["units"].l[i] IN
          /\ u.ty = "dict"
          /\ RequiredUnitKeys \subseteq DOMAIN u.d
          /\ DOMAIN u.d \subseteq RequiredUnitKeys \cup {"scope", "audience", "depends_on"}
          /\ u.d["path"] \in {Str(""), Str("a.md")}
    /\ Has(data, "relationships") =>
          /\ IsList(data["relationships"])
          /\ \A j \in 1..Len(data["relationships"].l) :
                LET r == data["relationships"].l[j] IN
                r.ty = "dict" /\ DOMAIN r.d = {"from", "to", "type"}

\* C12 as stated: validate emits one warning naming the unknown id for each
\* depends_on entry and each relationship endpoint that names no unit, and
\* the errors are unaffected.
C12_DanglingWarned ==
    Returned(result) =>
        /\ DependsOnWarned(manifest.value, Dangling(manifest.value, TRUE))
        /\ EndpointsWarned(manifest.value)
        /\ ReferencesAddNoError(manifest.value)

\* C12: a dangling reference never fails parse_dict and never adds an error;
\* validate emits one warning naming the unknown id for each relationship
\* endpoint and for each depends_on entry of a unit whose id is not empty (a
\* unit with an empty id is skipped after its 'id' error) that names no unit.
C12_DanglingWarnedWhereChecked ==
    /\ (Parsed /\ WholeButForReferences(input.data)) => Returned(manifest)
    /\ Returned(result) =>
        /\ DependsOnWarned(manifest.value, Dangling(manifest.value, FALSE))
        /\ EndpointsWarned(manifest.value)
        /\ ReferencesAddNoError(manifest.value)

\* A unit names an unknown unit twice over two units bearing the same id:
\* two warnings, and the manifest is valid.
C12_Witness ==
    /\ Returned(result)
    /\ Cardinality(Dangling(manifest.value, FALSE)) >= 2
    /\ Cardinality(UnitIds(manifest.value.units)) = 1
    /\ is_valid(result.value)

GivenOr(d, k, default) == IF k \in DOMAIN d THEN d[k] ELSE default

\* C15: a manifest parse_dict returns has version "" when the document has no
\* 'version' and kcp_version None when it has no 'kcp_version'; a unit without
\* 'depends_on' or 'triggers' has an empty list there; a document without
\* 'relationships' has none.  What is present is kept as given.
C15_OptionalDefaults ==
    (Parsed /\ Returned(manifest)) =>
        LET d == input.data
            m == manifest.value
        IN  /\ m.version = GivenOr(d, "version", Str(""))
            /\ m.kcp_version = GivenOr(d, "kcp_version", None)
            /\ "relationships" \notin DOMAIN d => m.relationships = <<>>
            /\ \A i \in 1..Len(DocUnits) :
                  /\ m.units[i].depends_on = GivenOr(DocUnits[i].d, "depends_on", List(<<>>))
                  /\ m.units[i].triggers = GivenOr(DocUnits[i].d, "triggers", List(<<>>))

\* MINIMAL: neither 'version' nor 'relationships', a unit with neither
\* 'depends_on' nor 'triggers'.
C15_Witness ==
    /\ Parsed /\ Returned(manifest)
    /\ {"version", "relationships"} \cap DOMAIN input.data = {}
    /\ manifest.value.version = Str("")
    /\ manifest.value.relationships = <<>>
    /\ \E i \in 1..Len(DocUnits) :
          /\ {"depends_on", "triggers"} \cap DOMAIN DocUnits[i].d = {}
          /\ manifest.value.units[i].depends_on = List(<<>>)
          /\ manifest.value.units[i].triggers = List(<<>>)
(***************************************************************************)
(* Count and order.                                                        *)
(***************************************************************************)
DocRelationships ==
    LET r == Get(input.data, "relationships", List(<<>>)) IN
    IF IsList(r) THEN r.l ELSE <<>>

\* C16: a manifest parse_dict returns has as many units and relationships as
\* the document, and its i-th unit and j-th relationship carry the id, path
\* and intent, and the from, to and type, of the document's i-th unit and
\* j-th relationship: nothing is reordered, merged or dropped, also when ids
\* repeat.
C16_CountAndOrder ==
    (Parsed /\ Returned(manifest)) =>
        LET m == manifest.value IN
        /\ Len(m.units) = Len(DocUnits)
        /\ \A i \in 1..Len(DocUnits) :
              /\ m.units[i].id = DocUnits[i].d.id
              /\ m.units[i].path = DocUnits[i].d.path
              /\ m.units[i].intent = DocUnits[i].d.intent
        /\ Len(m.relationships) = Len(DocRelationships)
        /\ \A j \in 1..Len(DocRelationships) :
              /\ m.relationships[j].from_id = DocRelationships[j].d.from
              /\ m.relationships[j].to_id = DocRelationships[j].d.to
              /\ m.relationships[j].type = DocRelationships[j].d.type

\* Two units with one id and two equal relationships, all four in the manifest.
C16_Witness ==
    /\ Parsed /\ Returned(manifest)
    /\ Len(DocUnits) = 2 /\ DocUnits[1].d.id = DocUnits[2].d.id
    /\ DocUnits[1] # DocUnits[2]
    /\ Len(manifest.value.units) = 2
    /\ Len(DocRelationships) = 2 /\ DocRelationships[1] = DocRelationships[2]
    /\ Len(manifest.value.relationships) = 2
(***************************************************************************)
(* Trigger bounds.                                                         *)
(***************************************************************************)
TooManyRule == "more than 20 triggers"
TooLongRule == "trigger exceeds 60 characters"

TriggersOf(unit) == IF IsList(unit.triggers) THEN unit.triggers.l ELSE <<>>

\* The units with more than 20 triggers; those with an empty id count only
\* when `all` is TRUE.
Overfull(m, all) ==
    {i \in 1..Len(m.units) :
        /\ all \/ Present(m.units[i].id)
        /\ Len(TriggersOf(m.units[i])) > 20}

\* The triggers <<i, j>> (trigger j of unit i) longer than 60 characters.
Overlong(m, all) ==
    {p \in UNION {{<<i, j>> : j \in 1..Len(TriggersOf(m.units[i]))} : i \in 1..Len(m.units)} :
        /\ all \/ Present(m.units[p[1]].id)
        /\ Len(TriggersOf(m.units[p[1]])[p[2]].s) > 60}

WarningsOf(rule) ==
    {k \in 1..Len(result.value.warnings) : result.value.warnings[k].rule = rule}

\* One 'more than 20' warning for each unit of `overfull` and one 'exceeds 60
\* characters' warning for each trigger of `overlong`, and no other.
TriggersWarned(m, overfull, overlong) ==
    /\ Cardinality(WarningsOf(TooManyRule)) = Cardinality(overfull)
    /\ \A i \in overfull :
          LET id == m.units[i].id
              n == Len(TriggersOf(m.units[i]))
          IN Cardinality(UnitWarningsAbout(TooManyRule, id, PyInt(n)))
               = Cardinality({j \in overfull :
                     m.units[j].id = id /\ Len(TriggersOf(m.units[j])) = n})
    /\ Cardinality(WarningsOf(TooLongRule)) = Cardinality(overlong)
    /\ \A p \in overlong :
          LET id == m.units[p[1]].id
              trigger == TriggersOf(m.units[p[1]])[p[2]]
          IN Cardinality(UnitWarningsAbout(TooLongRule, id, trigger))
               = Cardinality({q \in overlong :
                     m.units[q[1]].id = id /\ TriggersOf(m.units[q[1]])[q[2]] = trigger})

\* The manifest with no trigger.
WithoutTriggers(m) ==
    [m EXCEPT !.units = [i \in 1..Len(m.units) |-> [m.units[i] EXCEPT !.triggers = List(<<>>)]]]

\* The errors are those of the manifest without its triggers.
TriggersAddNoError(m) ==
    result.value.errors
      = validate(WithoutTriggers(m), input.manifest_dir, input.files).value.errors

\* After validate every unit has the triggers it was given.
TriggersKept(m) ==
    IF input.via = "parse_dict"
    THEN \A i \in 1..Len(DocUnits) :
            m.units[i].triggers = GivenOr(DocUnits[i].d, "triggers", List(<<>>))
    ELSE \A i \in 1..Len(m.units) : m.units[i].triggers = input.data.units[i].triggers

\* C17 as stated: one 'more than 20' warning for every unit with more than
\* 20 triggers, one 'exceeds 60 characters' warning for every trigger longer
\* than 60 characters, no other trigger warning, no error, no truncation.
C17_TriggerBounds ==
    Returned(result) =>
        /\ TriggersWarned(manifest.value, Overfull(manifest.value, TRUE),
                          Overlong(manifest.value, TRUE))
        /\ TriggersAddNoError(manifest.value)
        /\ TriggersKept(manifest.value)

\* C17: for the units whose id is not empty (a unit with an empty id is
\* skipped after its 'id' error), validate emits one 'more than 20' warning
\* for every unit with more than 20 triggers and, independently, one 'exceeds
\* 60 characters' warning for every trigger longer than 60 characters; it
\* emits no other trigger warning and no error for triggers, and leaves every
\* trigger list as it was.
C17_TriggerBoundsWhereChecked ==
    Returned(result) =>
        /\ TriggersWarned(manifest.value, Overfull(manifest.value, FALSE),
                          Overlong(manifest.value, FALSE))
        /\ TriggersAddNoError(manifest.value)
        /\ TriggersKept(manifest.value)

\* A unit with 21 triggers of 61 characters: one warning for the count and
\* 21 for the lengths, the manifest valid and the 21 triggers still there.
C17_Witness ==
    /\ Returned(result)
    /\ Cardinality(WarningsOf(TooManyRule)) = 1
    /\ Cardinality(WarningsOf(TooLongRule)) = _MAX_TRIGGERS_PER_UNIT + 1
    /\ is_valid(result.value)
    /\ \E i \in 1..Len(manifest.value.units) :
          Len(TriggersOf(manifest.value.units[i])) = _MAX_TRIGGERS_PER_UNIT + 1
(***************************************************************************)
(* The enum-valued fields.                                                 *)
(***************************************************************************)
EnumFields == {"kind", "format", "update_frequency", "indexing"}

EnumRule(field) ==
    CASE field = "kind" -> "unknown 'kind' value"
      [] field = "format" -> "unknown 'format' value"
      [] field = "update_frequency" -> "unknown 'update_frequency' value"
      [] field = "indexing" -> "unknown 'indexing' shorthand"

EnumTable(field) ==
    CASE field = "kind" -> VALID_KINDS
      [] field = "format" -> VALID_FORMATS
      [] field = "update_frequency" -> VALID_UPDATE_FREQUENCIES
      [] field = "indexing" -> VALID_INDEXING_SHORTHANDS

TypeRule == "'type' must be one of"

\* The value is there and is not of the table; a structured indexing value
\* is of no table and is not held against the unit.
OutsideTable(field, v) ==
    /\ v # None
    /\ ~(IsStr(v) /\ v.s \in EnumTable(field))
    /\ field = "indexing" => IsStr(v)

\* One warning of the field's rule naming the value for each unit whose
\* value is outside the table, and no other; units with an empty id count
\* only when `all` is TRUE.
EnumsWarned(m, all) ==
    \A field \in EnumFields :
        LET flagged == {i \in 1..Len(m.units) :
                          /\ all \/ Present(m.units[i].id)
                          /\ OutsideTable(field, m.units[i][field])}
        IN /\ Cardinality(WarningsOf(EnumRule(field))) = Cardinality(flagged)
           /\ \A i \in flagged :
                 Cardinality(UnitWarningsAbout(EnumRule(field), m.units[i].id, m.units[i][field]))
                   = Cardinality({j \in flagged :
                        m.units[j].id = m.units[i].id /\ m.units[j][field] = m.units[i][field]})

\* One warning naming the type for each relationship of `flagged`, and no other.
TypesWarned(m, flagged) ==
    /\ Cardinality(WarningsOf(TypeRule)) = Cardinality(flagged)
    /\ \A j \in flagged :
          LET r == m.relationships[j] IN
          Cardinality({k \in WarningsOf(TypeRule) :
                          LET w == result.value.warnings[k] IN
                          w.from_id = r.from_id /\ w.to_id = r.to_id /\ w.arg = r.type})
            = Cardinality({i \in flagged : m.relationships[i] = r})

\* The relationships whose type is there and is no known type.
TypeOutside(m) ==
    {j \in 1..Len(m.relationships) :
        /\ m.relationships[j].type # None
        /\ ~InSet(m.relationships[j].type, VALID_RELATIONSHIP_TYPES)}

\* The relationships whose type is no known type, None included.
TypeNotInside(m) ==
    {j \in 1..Len(m.relationships) : ~InSet(m.relationships[j].type, VALID_RELATIONSHIP_TYPES)}

\* The manifest with no enum-valued field set and every relationship of a known type.
WithoutEnums(m) ==
    [m EXCEPT
       !.units = [i \in 1..Len(m.units) |->
                    [m.units[i] EXCEPT !.kind = None, !.format = None,
                                       !.update_frequency = None, !.indexing = None]],
       !.relationships = [j \in 1..Len(m.relationships) |->
                            [m.relationships[j] EXCEPT !.type = Str("enables")]]]

\* The errors are those of the manifest without its enum values.
EnumsAddNoError(m) ==
    result.value.errors
      = validate(WithoutEnums(m), input.manifest_dir, input.files).value.errors

\* C18 as stated: for kind, format, update_frequency and string-shaped
\* indexing of every unit, and for the type of every relationship, one
\* warning naming the value when it is present and outside the known set,
\* none when it is absent or inside; no error.
C18_EnumWarnings ==
    Returned(result) =>
        /\ EnumsWarned(manifest.value, TRUE)
        /\ TypesWarned(manifest.value, TypeOutside(manifest.value))
        /\ EnumsAddNoError(manifest.value)

\* C18: for kind, format, update_frequency and string-shaped indexing of a
\* unit whose id is not empty (a unit with an empty id is skipped after its
\* 'id' error), validate emits one warning naming the value when it is not
\* None and outside the known set and none when it is None or inside; a
\* structured indexing value is never flagged.  For the type of a
\* relationship it emits one warning naming the value when it is outside the
\* known set, None included.  None of these adds an error.
C18_EnumWarningsWhereChecked ==
    Returned(result) =>
        /\ EnumsWarned(manifest.value, FALSE)
        /\ TypesWarned(manifest.value, TypeNotInside(manifest.value))
        /\ EnumsAddNoError(manifest.value)

\* A unit of an unknown kind beside one with a structured indexing value,
\* and a relationship of an unknown type: one warning each for the kind and
\* the type, none for the indexing, and a valid manifest.
C18_Witness ==
    /\ Returned(result)
    /\ \E i \in 1..Len(manifest.value.units) : manifest.value.units[i].indexing = IndexingObject
    /\ Cardinality(WarningsOf(EnumRule("kind"))) = 1
    /\ Cardinality(WarningsOf(EnumRule("indexing"))) = 0
    /\ Cardinality(WarningsOf(TypeRule)) = 1
    /\ is_valid(result.value)
(***************************************************************************)
(* The kcp_version advisory.                                               *)
(***************************************************************************)
NotDeclaredRule == "'kcp_version' not declared; assuming 0.3"
UnknownVersionRule == "unknown kcp_version"

\* The warnings that mention kcp_version.
KcpVersionWarned == WarningsOf(NotDeclaredRule) \cup WarningsOf(UnknownVersionRule)

WithKnownVersion(m) == [m EXCEPT !.kcp_version = Str("0.3")]

\* C19: validate emits exactly one warning mentioning kcp_version when the
\* manifest declares none (None or the empty string), exactly one naming the
\* value when it declares one that is not "0.1", "0.2" or "0.3", and none
\* when it declares one of these; the errors are those of the same manifest
\* with a known kcp_version.
C19_KcpVersionAdvisory ==
    Returned(result) =>
        LET v == manifest.value.kcp_version IN
        /\ ~Present(v) =>
              /\ Cardinality(KcpVersionWarned) = 1
              /\ Cardinality(WarningsOf(NotDeclaredRule)) = 1
        /\ (Present(v) /\ v \notin {Str("0.1"), Str("0.2"), Str("0.3")}) =>
              /\ Cardinality(KcpVersionWarned) = 1
              /\ \A k \in WarningsOf(UnknownVersionRule) : result.value.warnings[k].arg = v
              /\ Cardinality(WarningsOf(UnknownVersionRule)) = 1
        /\ v \in {Str("0.1"), Str("0.2"), Str("0.3")} => KcpVersionWarned = {}
        /\ result.value.errors
              = validate(WithKnownVersion(manifest.value),
                         input.manifest_dir, input.files).value.errors

\* A manifest that declares no kcp_version: its one warning, and no error.
C19_Witness ==
    /\ Returned(result)
    /\ manifest.value.kcp_version = None
    /\ Cardinality(KcpVersionWarned) = 1
    /\ result.value.errors = <<>>
(***************************************************************************)
(* The existence probe.                                                    *)
(***************************************************************************)
MissingRule == "path does not exist"

\* The units with an id and a path that is not on the disk.
Missing(m) ==
    {i \in 1..Len(m.units) :
        /\ Present(m.units[i].id)
        /\ Present(m.units[i].path)
        /\ ~PathExists(input.files, m.units[i].path.s)}

\* C20: without a base directory validate emits no 'does not exist' warning;
\* with one it emits one such warning, naming the path, for each unit with a
\* non-empty id and a non-empty path that is not there under the base
\* directory, and no other; the errors are those of the validation without a
\* base directory.
C20_PathProbe ==
    Returned(result) =>
        LET m == manifest.value IN
        /\ input.manifest_dir = None => WarningsOf(MissingRule) = {}
        /\ input.manifest_dir # None =>
              /\ Cardinality(WarningsOf(MissingRule)) = Cardinality(Missing(m))
              /\ \A i \in Missing(m) :
                    Cardinality(UnitWarningsAbout(MissingRule, m.units[i].id, m.units[i].path))
                      = Cardinality({j \in Missing(m) :
                           m.units[j].id = m.units[i].id /\ m.units[j].path = m.units[i].path})
        /\ result.value.errors = validate(m, None, {}).value.errors

\* Under a base directory, a unit whose file is there and one whose file is
\* not: one warning, and a valid manifest.
C20_Witness ==
    /\ Returned(result)
    /\ input.manifest_dir # None
    /\ Len(manifest.value.units) = 2
    /\ Cardinality(Missing(manifest.value)) = 1
    /\ Cardinality(WarningsOf(MissingRule)) = 1
    /\ is_valid(result.value)
(***************************************************************************)
(* The dependency graph and the edges _detect_cycles returns.              *)
(***************************************************************************)
\* Every edge (unit.id, dep) with dep the id of a unit, over all the units.
DependencyEdges(units) ==
    UNION {{<<units[i].id, dep>> : dep \in Range(units[i].depends_on.l) \cap UnitIds(units)} :
             i \in 1..Len(units)}

\* The nodes one or more edges of E lead to from the nodes of S.
RECURSIVE Beyond(_, _)
Beyond(E, S) ==
    LET further == S \cup {e[2] : e \in {x \in E : x[1] \in S}} IN
    IF further = S THEN S ELSE Beyond(E, further)

Reaches(E, u, v) == v \in Beyond(E, {e[2] : e \in {x \in E : x[1] = u}})

HasCycle(E) == \E e \in E : Reaches(E, e[1], e[1])

\* C22 as stated: the dependency graph of all the units, those sharing an id
\* included, has no directed cycle once the edges _detect_cycles returns are
\* removed; and _detect_cycles returns no edge for an acyclic graph.
C22_ResidualAcyclic ==
    Returned(cycles) =>
        LET E == DependencyEdges(manifest.value.units) IN
        /\ ~HasCycle(E \ cycles.value)
        /\ ~HasCycle(E) => cycles.value = {}

\* The edges this step adds to cycle_edges.
Reported == walk'.cycle_edges \ walk.cycle_edges

\* C23: every edge (u, v) _detect_cycles returns is an edge of the dependency
\* graph between two known unit ids, and v reaches u along dependency edges;
\* and no step reports an edge into a node that is not on the path (one
\* finished, or one unvisited).
C23_ReportedEdgesSound ==
    /\ [](Returned(cycles) =>
            LET E == DependencyEdges(manifest.value.units) IN
            \A e \in cycles.value :
                /\ e \in E
                /\ {e[1], e[2]} \subseteq UnitIds(manifest.value.units)
                /\ e[1] = e[2] \/ Reaches(E, e[2], e[1]))
    /\ [][\A e \in Reported : walk.state[e[2]] = 1]_vars

\* Edges were returned, and the graph has an edge into a finished node and a
\* dangling one that were not.
C23_Witness ==
    /\ pc = "returned"
    /\ cycles.value # {}
    /\ DependencyEdges(manifest.value.units) \ cycles.value # {}
    /\ \E i \in 1..Len(manifest.value.units) :
          Str("ghost") \in Range(manifest.value.units[i].depends_on.l)

(***************************************************************************)
(* The walk ends.                                                          *)
(***************************************************************************)
\* C24: _detect_cycles returns for every unit list; a step leaves the state
\* of a node as it is or moves it one up, from unvisited (0) to on the path
\* (1) or from there to finished (2), so that no node is entered twice; and
\* when _detect_cycles returns every node is finished.
C24_WalkTerminates ==
    /\ (pc = "graph") ~> (pc = "returned")
    /\ [][\A n \in DOMAIN walk.state :
             walk'.state[n] = walk.state[n] \/ walk'.state[n] = walk.state[n] + 1]_vars
    /\ [](pc = "returned" => \A n \in DOMAIN walk.state : walk.state[n] = 2)

\* Returned from three units, two of them sharing an id, one naming itself
\* twice and one naming every unit: edges found and every node finished.
C24_Witness ==
    /\ pc = "returned"
    /\ Len(manifest.value.units) = 3
    /\ Cardinality(UnitIds(manifest.value.units)) = 2
    /\ \E i \in 1..Len(manifest.value.units) :
          manifest.value.units[i].depends_on.l = <<Str("ghost"), Str("a"), Str("a")>>
    /\ \E i \in 1..Len(manifest.value.units) :
          Len(manifest.value.units[i].depends_on.l) = Cardinality(UnitIds(manifest.value.units)) + 1
    /\ cycles.value # {}
    /\ \A n \in DOMAIN walk.state : walk.state[n] = 2

(***************************************************************************)
(* One simple cycle.                                                       *)
(***************************************************************************)
\* The units have distinct ids, each names one unit, and every unit reaches
\* every unit: the graph is one cycle through all of them.
SimpleCycle(units) ==
    /\ Len(units) >= 2
    /\ Cardinality(UnitIds(units)) = Len(units)
    /\ \A i \in 1..Len(units) :
          Len(units[i].depends_on.l) = 1 /\ units[i].depends_on.l[1] \in UnitIds(units)
    /\ \A u, v \in UnitIds(units) : Reaches(DependencyEdges(units), u, v)

\* C25: for units that form one simple cycle, _detect_cycles returns exactly
\* one edge, in whichever order the loop meets the ids.
C25_OneEdgePerSimpleCycle ==
    (pc = "returned" /\ SimpleCycle(manifest.value.units)) => Cardinality(cycles.value) = 1

\* The three-node cycle walked from its second unit: one edge.
C25_Witness ==
    /\ pc = "returned"
    /\ SimpleCycle(manifest.value.units)
    /\ Len(manifest.value.units) = 3
    /\ walk.order[1] = manifest.value.units[2].id
    /\ Cardinality(cycles.value) = 1

(***************************************************************************)
(* The order of the id set.                                                *)
(***************************************************************************)
\* C26 as stated: the edges _detect_cycles returns are those it returns for
\* the same units under every other order in which the loop can meet the ids.
C26_EdgesIndependentOfOrder ==
    pc = "returned" =>
        \A order \in Orders(UnitIds(manifest.value.units)) :
            _detect_cycles(manifest.value.units, order) = cycles

(***************************************************************************)
(* Findings beside findings.                                               *)
(***************************************************************************)
IdRule == "'id' is required"
PathRule == "'path' is required"
IntentRule == "'intent' is required"

\* The errors of one of `rules` about the unit `id`.
UnitErrorsAbout(rules, id) ==
    {k \in 1..Len(result.value.errors) :
        LET e == result.value.errors[k] IN e.rule \in rules /\ e.id = id}

\* The units bearing `id`.
Bearing(units, id) == {j \in 1..Len(units) : units[j].id = id}

\* A unit with an empty id contributes its one error and nothing else.
EmptyIdSkipped(m) ==
    /\ Cardinality({k \in 1..Len(result.value.errors) : result.value.errors[k].rule = IdRule})
         = Cardinality({i \in 1..Len(m.units) : ~Present(m.units[i].id)})
    /\ \A k \in 1..Len(result.value.errors) :
          LET e == result.value.errors[k] IN "id" \in DOMAIN e => Present(e.id)
    /\ \A k \in 1..Len(result.value.warnings) :
          LET w == result.value.warnings[k] IN "id" \in DOMAIN w => Present(w.id)

\* A unit with an id contributes an error for each of path, intent and scope
\* that is wrong, whatever the others are.
ErrorsSideBySide(m) ==
    \A i \in 1..Len(m.units) :
        LET id == m.units[i].id
            same == Bearing(m.units, id)
        IN Present(id) =>
             /\ Cardinality(UnitErrorsAbout({PathRule}, id))
                  = Cardinality({j \in same : ~Present(m.units[j].path)})
             /\ Cardinality(UnitErrorsAbout({IntentRule}, id))
                  = Cardinality({j \in same : ~Present(m.units[j].intent)})
             /\ Cardinality(UnitErrorsAbout(ScopeRules, id))
                  = Cardinality({j \in same : m.units[j].scope \notin ScopeValues})

\* The manifest-level errors stop nothing: the other findings are those of
\* the manifest with a project, and with no unit the relationships are
\* checked all the same.
RootErrorsStopNothing(m) ==
    LET named == validate([m EXCEPT !.project = Str("p")], input.manifest_dir, input.files).value
    IN /\ result.value.warnings = named.warnings
       /\ result.value.errors
            = (IF Present(m.project) THEN <<>> ELSE <<ManifestMsg("'project' is required", None)>>)
              \o named.errors
       /\ m.units = <<>> => EndpointsWarned(m)

\* C27: a unit with an empty id contributes exactly one error and no other
\* finding; a unit with an id contributes an error for each of its path,
\* intent and scope that is wrong, all of them in one result; the
\* manifest-level errors do not stop the unit and relationship checks.
C27_NoSuppression ==
    Returned(result) =>
        /\ EmptyIdSkipped(manifest.value)
        /\ ErrorsSideBySide(manifest.value)
        /\ RootErrorsStopNothing(manifest.value)

\* No project, a unit without an id and a unit with an empty path, an empty
\* intent and an invalid scope, a relationship between unknown units: five
\* errors, and the warnings of the unit and of the relationship.
C27_Witness ==
    /\ Returned(result)
    /\ ~Present(manifest.value.project)
    /\ Len(manifest.value.units) = 2
    /\ Len(result.value.errors) = 5
    /\ Cardinality(UnitErrorsAbout({PathRule, IntentRule} \cup ScopeRules, Str("a"))) = 3
    /\ Cardinality(WarningsOf(FromRule)) = 1
    /\ Cardinality(WarningsOf("unknown audience value(s)")) = 1

(***************************************************************************)
(* The order of the messages.                                              *)
(***************************************************************************)
\* Where a message stands by what it is about.
Rank(msg) ==
    CASE msg.about = "manifest" -> 0
      [] msg.about = "unit" -> 1
      [] msg.about = "relationship" -> 2

\* The message is one the unit can have contributed: it names the unit's id,
\* or names none and the unit has none.
FromUnit(msg, unit) == IF "id" \in DOMAIN msg THEN msg.id = unit.id ELSE ~Present(unit.id)

FromRelationship(msg, rel) == msg.from_id = rel.from_id /\ msg.to_id = rel.to_id

\* The unit messages can be dealt to the units so that every message of an
\* earlier unit precedes every message of a later one.
RECURSIVE InUnitOrder(_, _)
InUnitOrder(msgs, units) ==
    IF msgs = <<>> THEN TRUE
    ELSE IF units = <<>> THEN FALSE
    ELSE IF FromUnit(Head(msgs), Head(units)) THEN InUnitOrder(Tail(msgs), units)
    ELSE InUnitOrder(msgs, Tail(units))

RECURSIVE InRelationshipOrder(_, _)
InRelationshipOrder(msgs, rels) ==
    IF msgs = <<>> THEN TRUE
    ELSE IF rels = <<>> THEN FALSE
    ELSE IF FromRelationship(Head(msgs), Head(rels)) THEN InRelationshipOrder(Tail(msgs), rels)
    ELSE InRelationshipOrder(msgs, Tail(rels))

AboutUnit(msg) == msg.about = "unit"
AboutRelationship(msg) == msg.about = "relationship"

\* Manifest messages, then unit messages in unit order, then relationship
\* messages in relationship order.
Ordered(msgs, m) ==
    /\ \A k, l \in 1..Len(msgs) : k < l => Rank(msgs[k]) <= Rank(msgs[l])
    /\ InUnitOrder(SelectSeq(msgs, AboutUnit), m.units)
    /\ InRelationshipOrder(SelectSeq(msgs, AboutRelationship), m.relationships)

\* C28: in errors and in warnings the manifest-level messages come first,
\* then the messages of the units in manifest unit order, then those of the
\* relationships in relationship order.
C28_MessageOrder ==
    Returned(result) =>
        /\ Ordered(result.value.errors, manifest.value)
        /\ Ordered(result.value.warnings, manifest.value)

\* Errors about the manifest and about two units, warnings about the
\* manifest, a unit and a relationship.
C28_Witness ==
    /\ Returned(result)
    /\ {Rank(result.value.errors[k]) : k \in 1..Len(result.value.errors)} = {0, 1}
    /\ {Rank(result.value.warnings[k]) : k \in 1..Len(result.value.warnings)} = {0, 1, 2}
    /\ Cardinality({k \in 1..Len(result.value.errors) : result.value.errors[k].rule = IdRule}) = 1
    /\ Cardinality(UnitErrorsAbout({PathRule}, Str("a"))) = 1

(***************************************************************************)
(* The bridge: what it exposes.                                            *)
(***************************************************************************)
HasAgent(unit) == Str("agent") \in Range(unit.audience.l)

\* The units the bridge is to list: all of them, or those for agents.
Exposed(units, agent_only) ==
    IF agent_only THEN SelectSeq(units, HasAgent) ELSE units

\* The list is the manifest resource and then one resource per exposed unit,
\* in manifest order.
ListsExposed ==
    LET listed == bridge.listed.value
        exposed == Exposed(manifest.value.units, bridge.agent_only)
    IN /\ Len(listed) = Len(exposed) + 1
       /\ listed[1] = [uri |-> bridge.server.value.m_uri, name |-> Str("manifest")]
       /\ \A i \in 1..Len(exposed) :
             /\ listed[i + 1].name = exposed[i].id
             /\ listed[i + 1].uri = unit_uri(bridge.server.value.slug, exposed[i].id.s)

\* The last read returned the content of a file.
ReadFile == Returned(bridge.read.outcome) /\ ~bridge.read.outcome.value.index

\* A file that read_resource returns is the file of a unit for agents.
ReadsOnlyExposed ==
    ReadFile =>
        \E i \in 1..Len(manifest.value.units) :
            /\ HasAgent(manifest.value.units[i])
            /\ manifest.value.units[i].path = bridge.read.call.path

\* C21: with agent_only, list_resources returns the manifest resource followed
\* by exactly the units whose audience contains "agent", in manifest order, and
\* read_resource returns the file of no unit without "agent"; without
\* agent_only every unit is listed.
C21_AgentOnlyExposure ==
    /\ Returned(bridge.listed) => ListsExposed
    /\ bridge.agent_only => ReadsOnlyExposed

\* The first half alone.
C21_ListingOnly == Returned(bridge.listed) => ListsExposed

(***************************************************************************)
(* The bridge: no read outside the manifest root.                          *)
(***************************************************************************)
\* The path leaves the directory it is joined to: it starts at the root, or
\* somewhere along it the ".." segments outnumber the named ones before them.
RECURSIVE Leaves(_, _)
Leaves(parts, depth) ==
    IF parts = <<>> THEN FALSE
    ELSE IF Head(parts) \in {"/", "//"} THEN TRUE
    ELSE IF Head(parts) = ".." THEN depth = 0 \/ Leaves(Tail(parts), depth - 1)
    ELSE Leaves(Tail(parts), depth + 1)

Outside(path) == Leaves(PurePosixPathParts(path.s), 0)

\* C29: for a unit path that parse_dict accepted, read_resource_content
\* raises PathTraversalError when the path resolves outside manifest_dir,
\* having called neither exists() nor a read; and it returns content only for
\* a path inside manifest_dir that names an existing file, the one it opened.
C29_NoReadOutsideRoot ==
    LET call == bridge.read.call IN
    call.outcome # Pending =>
        /\ Outside(call.path) =>
              /\ call.outcome = Raise("PathTraversalError", "Path escapes manifest root")
              /\ ~call.probed
              /\ call.opened = {}
              /\ bridge.read.outcome = Raise("ValueError", "Path escapes manifest root")
        /\ Returned(call.outcome) =>
              /\ ~Outside(call.path)
              /\ \E f \in bridge.server.value.files :
                    call.outcome.value.file = PurePosixPathParts(BaseDir.s) \o f
              /\ call.opened = {call.outcome.value.file}
        /\ \A f \in call.opened : IsPrefix(PurePosixPathParts(BaseDir.s), f)

\* The mid-path traversal that the parser lets through is refused.
C29_Witness ==
    /\ Returned(manifest)
    /\ bridge.read.call.path = Str("a/../..")
    /\ bridge.read.call.outcome.exc = "PathTraversalError"

(***************************************************************************)
(* The bridge: addressing.                                                 *)
(***************************************************************************)
\* The listed URIs are pairwise distinct.
DistinctUris ==
    LET listed == bridge.listed.value
    IN \A i, j \in 1..Len(listed) : listed[i].uri = listed[j].uri => i = j

\* A read of the URI listed for a unit that returns, returns that unit's file.
ReadsOwnFile ==
    LET exposed == Exposed(manifest.value.units, bridge.agent_only)
    IN \A i \in 1..Len(exposed) :
          (bridge.read.uri = unit_uri(bridge.server.value.slug, exposed[i].id.s)
             /\ Returned(bridge.read.outcome))
          => ReadFile /\ bridge.read.call.path = exposed[i].path

\* C30: the resources of list_resources have pairwise distinct URIs, and
\* read_resource on the URI listed for a unit returns that unit's own file,
\* never the manifest index and never the file of another unit, also for a
\* unit with id "manifest" and for units sharing an id.
C30_UnambiguousAddressing ==
    Returned(bridge.server) =>
        /\ Returned(bridge.listed) => DistinctUris
        /\ ReadsOwnFile

\* The same for manifests whose ids are pairwise distinct.
C30_WithDistinctIds ==
    (Returned(manifest)
       /\ Cardinality(UnitIds(manifest.value.units)) = Len(manifest.value.units))
    => C30_UnambiguousAddressing
====
